---- MODULE Spec2Model ----
(***************************************************************************)
(* Material resolution of the Blender import task                          *)
(* (FortnitePorting/Plugins/Blender/import_task.py).                       *)
(*                                                                         *)
(* Conventions of the translation:                                         *)
(*  - a Python dict is a record; d.get(k) is Get(d, k), which is << >> for *)
(*    None (key absent) and <<v>> for the value v;                         *)
(*  - a Python list is a sequence; objects that the code mutates in place  *)
(*    (the parameter lists of a material descriptor) live in the variable  *)
(*    `response` and are addressed by their path in the decoded request;   *)
(*  - a material name is a sequence of text pieces, so that                *)
(*    name + "_" + hash_code(h) is sequence concatenation;                 *)
(*  - an uncaught Python exception sets `aborted` (it leaves               *)
(*    ImportTask.run, which has no handler).                               *)
(***************************************************************************)
EXTENDS Integers, Sequences, FiniteSets, TLC

VARIABLES
    response,            \* the decoded request; descriptors' parameter lists are mutated in place
    original,            \* the request as received (history variable, never changes)
    node_groups,         \* bpy.data.node_groups after append_data: name -> input sockets of the group
    materials,           \* bpy.data.materials: sequence of material objects, identity = index
    slots,               \* material_slots of every imported mesh: <<d, m>> -> sequence of material ids
    imported_materials,  \* DataImportTask.imported_materials: fingerprint -> material id
    is_toon,             \* DataImportTask.is_toon
    crunch_verts_materials, \* DataImportTask.crunch_verts_materials
    pc,                  \* position of ImportTask.run in its nested loops
    aborted,             \* an exception left ImportTask.run
    scene,               \* bpy.data.objects, the sequence editor and frame_end of the scene
    messages,            \* the messages handed to MessageServer.instance.send
    log,                 \* history: one summary per import_material call
    last                 \* history: details of the most recent import_material call

vars == <<response, original, node_groups, materials, slots, imported_materials,
          is_toon, crunch_verts_materials, pc, aborted, scene, messages, log, last>>

----------------------------------------------------------------------------
(* Python values *)

\* None, where the value is otherwise a string (SlotMapping fields, node_tree, image)
None == "<None>"

\* dict.get(key): << >> is None
Get(d, key) == IF key \in DOMAIN d THEN <<d[key]>> ELSE << >>

\* truth value of an optional bool / string / number / dict
TruthyBool(opt) == opt = <<TRUE>>
TruthyStr(opt) == opt # << >> /\ opt[1] # ""
TruthyNum(opt) == opt # << >> /\ opt[1] # 0
TruthyDict(opt) == opt # << >>

\* smallest index of target satisfying expr, 0 when there is none
FirstIndex(target, expr(_)) ==
    IF \E i \in 1..Len(target) : expr(target[i])
    THEN CHOOSE i \in 1..Len(target) : expr(target[i]) /\ \A j \in 1..(i - 1) : ~expr(target[j])
    ELSE 0

\* first(target, expr): next(filter(expr, target), None); << >> is None
first(target, expr(_)) ==
    LET i == FirstIndex(target, expr) IN IF i = 0 THEN << >> ELSE <<target[i]>>

\* where(target, expr): list(filter(expr, target))
where(target, expr(_)) == SelectSeq(target, expr)

\* any(target, expr): len(list(filter(expr, target))) > 0
any(target, expr(_)) == \E i \in 1..Len(target) : expr(target[i])

\* get_param of import_material: Value of the first entry of that name, or None
get_param(source, name) ==
    LET found == first(source, LAMBDA param : Get(param, "Name") = <<name>>)
    IN IF found = << >> THEN << >> ELSE Get(found[1], "Value")

\* get_param_multiple of import_material: Value of the first entry whose name is listed
get_param_multiple(source, names) ==
    LET found == first(source, LAMBDA param : Get(param, "Name") # << >> /\ param.Name \in names)
    IN IF found = << >> THEN << >> ELSE Get(found[1], "Value")

----------------------------------------------------------------------------
(* hash_code and names *)

HexDigits == <<"0", "1", "2", "3", "4", "5", "6", "7", "8", "9", "a", "b", "c", "d", "e", "f">>

abs(num) == IF num < 0 THEN 0 - num ELSE num

RECURSIVE hex(_)
\* the digits of hex(n)[2:] for n >= 0, most significant first
hex(n) == IF n < 16 THEN <<HexDigits[n + 1]>> ELSE hex(n \div 16) \o <<HexDigits[(n % 16) + 1]>>

\* hash_code(num) = hex(abs(num))[2:]
hash_code(num) == hex(abs(num))

\* str.casefold on the pieces of a name (the names of the model differ from their
\* casefold only in these pieces)
CasefoldPiece(s) ==
    CASE s = "Skin" -> "skin"
      [] s = "SKIN" -> "skin"
      [] s = "Bark" -> "bark"
      [] s = "BARK" -> "bark"
      [] s = "Glow" -> "glow"
      [] s = "MI_VertexCrunch" -> "mi_vertexcrunch"
      [] s = "M_VertexCrunch" -> "m_vertexcrunch"
      [] OTHER -> s

casefold(name) == [i \in DOMAIN name |-> CasefoldPiece(name[i])]

----------------------------------------------------------------------------
(* Mapping tables *)

\* SlotMapping.__init__: slot defaults to name
SlotMapping(name, slot, alpha_slot, switch_slot, value_func, coords) ==
    [name |-> name,
     slot |-> IF slot = None THEN name ELSE slot,
     alpha_slot |-> alpha_slot,
     switch_slot |-> switch_slot,
     value_func |-> value_func,
     coords |-> coords]

default_mappings ==
  [ textures |-> <<
        SlotMapping("Diffuse", None, None, None, None, "UV0"),
        SlotMapping("D", "Diffuse", None, None, None, "UV0"),
        SlotMapping("Base Color", "Diffuse", None, None, None, "UV0"),
        SlotMapping("Concrete", "Diffuse", None, None, None, "UV0"),
        SlotMapping("Trunk_BaseColor", "Diffuse", None, None, None, "UV0"),
        SlotMapping("Background Diffuse", None, "Background Diffuse Alpha", None, None, "UV0"),
        SlotMapping("BG Diffuse Texture", "Background Diffuse", "Background Diffuse Alpha", None, None, "UV0"),
        SlotMapping("M", None, None, None, None, "UV0"),
        SlotMapping("Mask", "M", None, None, None, "UV0"),
        SlotMapping("SpecularMasks", None, None, None, None, "UV0"),
        SlotMapping("S", "SpecularMasks", None, None, None, "UV0"),
        SlotMapping("SRM", "SpecularMasks", None, None, None, "UV0"),
        SlotMapping("Specular Mask", "SpecularMasks", None, None, None, "UV0"),
        SlotMapping("Concrete_SpecMask", "SpecularMasks", None, None, None, "UV0"),
        SlotMapping("Trunk_Specular", "SpecularMasks", None, None, None, "UV0"),
        SlotMapping("Normals", None, None, None, None, "UV0"),
        SlotMapping("N", "Normals", None, None, None, "UV0"),
        SlotMapping("Normal", "Normals", None, None, None, "UV0"),
        SlotMapping("NormalMap", "Normals", None, None, None, "UV0"),
        SlotMapping("ConcreteTextureNormal", "Normals", None, None, None, "UV0"),
        SlotMapping("Trunk_Normal", "Normals", None, None, None, "UV0"),
        SlotMapping("Emissive", "Emission", None, None, None, "UV0"),
        SlotMapping("EmissiveTexture", "Emission", None, None, None, "UV0"),
        SlotMapping("MaskTexture", None, None, None, None, "UV0"),
        SlotMapping("OpacityMask", "MaskTexture", None, None, None, "UV0") >>,
    scalars |-> <<
        SlotMapping("RoughnessMin", "Roughness Min", None, None, None, "UV0"),
        SlotMapping("SpecRoughnessMin", "Roughness Min", None, None, None, "UV0"),
        SlotMapping("RawRoughnessMin", "Roughness Min", None, None, None, "UV0"),
        SlotMapping("RoughnessMax", "Roughness Max", None, None, None, "UV0"),
        SlotMapping("SpecRoughnessMax", "Roughness Max", None, None, None, "UV0"),
        SlotMapping("RawRoughnessMax", "Roughness Max", None, None, None, "UV0"),
        SlotMapping("emissive mult", "Emission Strength", None, None, None, "UV0") >>,
    vectors |-> <<
        SlotMapping("Skin Boost Color And Exponent", "Skin Color", "Skin Boost", None, None, "UV0"),
        SlotMapping("SkinTint", "Skin Color", "Skin Boost", None, None, "UV0"),
        SlotMapping("EmissiveMultiplier", "Emission Multiplier", None, None, None, "UV0"),
        SlotMapping("Emissive Multiplier", "Emission Multiplier", None, None, None, "UV0"),
        SlotMapping("Emissive Color", "Emission Color", None, "Use Emission Color", None, "UV0") >>,
    switches |-> <<
        SlotMapping("SwizzleRoughnessToGreen", None, None, None, None, "UV0") >>,
    component_masks |-> << >> ]

layer_mappings ==
  [ textures |-> <<
        SlotMapping("Diffuse", None, None, None, None, "UV0"),
        SlotMapping("SpecularMasks", None, None, None, None, "UV0"),
        SlotMapping("Normals", None, None, None, None, "UV0"),
        SlotMapping("EmissiveTexture", None, None, None, None, "UV0"),
        SlotMapping("Diffuse_Texture_2", None, None, None, None, "UV0"),
        SlotMapping("SpecularMasks_2", None, None, None, None, "UV0"),
        SlotMapping("Normals_Texture_2", None, None, None, None, "UV0"),
        SlotMapping("Emissive_Texture_2", None, None, None, None, "UV0"),
        SlotMapping("Diffuse_Texture_3", None, None, None, None, "UV0"),
        SlotMapping("SpecularMasks_3", None, None, None, None, "UV0"),
        SlotMapping("Normals_Texture_3", None, None, None, None, "UV0"),
        SlotMapping("Emissive_Texture_3", None, None, None, None, "UV0"),
        SlotMapping("Diffuse_Texture_4", None, None, None, None, "UV0"),
        SlotMapping("SpecularMasks_4", None, None, None, None, "UV0"),
        SlotMapping("Normals_Texture_4", None, None, None, None, "UV0"),
        SlotMapping("Emissive_Texture_4", None, None, None, None, "UV0"),
        SlotMapping("Diffuse_Texture_5", None, None, None, None, "UV0"),
        SlotMapping("SpecularMasks_5", None, None, None, None, "UV0"),
        SlotMapping("Normals_Texture_5", None, None, None, None, "UV0"),
        SlotMapping("Emissive_Texture_5", None, None, None, None, "UV0"),
        SlotMapping("Diffuse_Texture_6", None, None, None, None, "UV0"),
        SlotMapping("SpecularMasks_6", None, None, None, None, "UV0"),
        SlotMapping("Normals_Texture_6", None, None, None, None, "UV0"),
        SlotMapping("Emissive_Texture_6", None, None, None, None, "UV0") >>,
    scalars |-> << >>,
    vectors |-> << >>,
    switches |-> << >>,
    component_masks |-> << >> ]

toon_mappings ==
  [ textures |-> <<
        SlotMapping("LitDiffuse", None, None, None, None, "UV0"),
        SlotMapping("ShadedDiffuse", None, None, None, None, "UV0"),
        SlotMapping("DistanceField_InkLines", None, None, None, None, "UV0"),
        SlotMapping("InkLineColor_Texture", None, None, None, None, "UV0"),
        SlotMapping("SSC_Texture", None, None, None, None, "UV0"),
        SlotMapping("Normals", None, None, None, None, "UV0") >>,
    scalars |-> <<
        SlotMapping("ShadedColorDarkening", None, None, None, None, "UV0"),
        SlotMapping("FakeNormalBlend_Amt", None, None, None, None, "UV0"),
        SlotMapping("PBR_Shading", "Use PBR Shading", None, None, "int", "UV0") >>,
    vectors |-> <<
        SlotMapping("InkLineColor", "InkLineColor_Texture", None, None, None, "UV0") >>,
    switches |-> << >>,
    component_masks |-> << >> ]

valet_mappings ==
  [ textures |-> <<
        SlotMapping("Diffuse", None, None, None, None, "UV0"),
        SlotMapping("Mask", None, "Mask Alpha", None, None, "UV0"),
        SlotMapping("Decal", None, "Decal Alpha", None, None, "UV1"),
        SlotMapping("Normal", None, None, None, None, "UV0"),
        SlotMapping("Specular Mask", None, None, None, None, "UV0"),
        SlotMapping("Scratch/Grime/EMPTY", None, None, None, None, "UV0") >>,
    scalars |-> <<
        SlotMapping("Scratch Intensity", None, None, None, None, "UV0"),
        SlotMapping("Grime Intensity", None, None, None, None, "UV0"),
        SlotMapping("Grime Spec", None, None, None, None, "UV0"),
        SlotMapping("Grime Roughness", None, None, None, None, "UV0"),
        SlotMapping("Layer 01 Specular", None, None, None, None, "UV0"),
        SlotMapping("Layer 01 Metalness", None, None, None, None, "UV0"),
        SlotMapping("Layer 01 Roughness Min", None, None, None, None, "UV0"),
        SlotMapping("Layer 01 Roughness Max", None, None, None, None, "UV0"),
        SlotMapping("Layer 01 Clearcoat", None, None, None, None, "UV0"),
        SlotMapping("Layer 01 Clearcoat Roughness Min", None, None, None, None, "UV0"),
        SlotMapping("Layer 01 Clearcoat Roughness Max", None, None, None, None, "UV0"),
        SlotMapping("Layer 02 Specular", None, None, None, None, "UV0"),
        SlotMapping("Layer 02 Metalness", None, None, None, None, "UV0"),
        SlotMapping("Layer 02 Roughness Min", None, None, None, None, "UV0"),
        SlotMapping("Layer 02 Roughness Max", None, None, None, None, "UV0"),
        SlotMapping("Layer 02 Clearcoat", None, None, None, None, "UV0"),
        SlotMapping("Layer 02 Clearcoat Roughness Min", None, None, None, None, "UV0"),
        SlotMapping("Layer 02 Clearcoat Roughness Max", None, None, None, None, "UV0"),
        SlotMapping("Layer 03 Specular", None, None, None, None, "UV0"),
        SlotMapping("Layer 03 Metalness", None, None, None, None, "UV0"),
        SlotMapping("Layer 03 Roughness Min", None, None, None, None, "UV0"),
        SlotMapping("Layer 03 Roughness Max", None, None, None, None, "UV0"),
        SlotMapping("Layer 03 Clearcoat", None, None, None, None, "UV0"),
        SlotMapping("Layer 03 Clearcoat Roughness Min", None, None, None, None, "UV0"),
        SlotMapping("Layer 03 Clearcoat Roughness Max", None, None, None, None, "UV0"),
        SlotMapping("Layer 04 Specular", None, None, None, None, "UV0"),
        SlotMapping("Layer 04 Metalness", None, None, None, None, "UV0"),
        SlotMapping("Layer 04 Roughness Min", None, None, None, None, "UV0"),
        SlotMapping("Layer 04 Roughness Max", None, None, None, None, "UV0"),
        SlotMapping("Layer 04 Clearcoat", None, None, None, None, "UV0"),
        SlotMapping("Layer 04 Clearcoat Roughness Min", None, None, None, None, "UV0"),
        SlotMapping("Layer 04 Clearcoat Roughness Max", None, None, None, None, "UV0") >>,
    vectors |-> <<
        SlotMapping("Scratch Tint", None, None, None, None, "UV0"),
        SlotMapping("Grime Tint", None, None, None, None, "UV0"),
        SlotMapping("Layer 01 Color", None, None, None, None, "UV0"),
        SlotMapping("Layer 02 Color", None, None, None, None, "UV0"),
        SlotMapping("Layer 03 Color", None, None, None, None, "UV0"),
        SlotMapping("Layer 04 Color", None, None, None, None, "UV0") >>,
    switches |-> << >>,
    component_masks |-> << >> ]

glass_mappings ==
  [ textures |-> <<
        SlotMapping("Color_DarkTint", None, None, None, None, "UV0"),
        SlotMapping("Diffuse Texture", "Color", None, None, None, "UV0"),
        SlotMapping("Normals", None, None, None, None, "UV0"),
        SlotMapping("BakedNormal", "Normals", None, None, None, "UV0"),
        SlotMapping("Diffuse Texture with Alpha Mask", "Color", "Mask", None, None, "UV0") >>,
    scalars |-> <<
        SlotMapping("Specular", None, None, None, None, "UV0"),
        SlotMapping("Metallic", None, None, None, None, "UV0"),
        SlotMapping("Roughness", None, None, None, None, "UV0"),
        SlotMapping("Window Tint Amount", "Tint Amount", None, None, None, "UV0"),
        SlotMapping("Fresnel Exponent", None, None, None, None, "UV0"),
        SlotMapping("Fresnel Inner Transparency", None, None, None, None, "UV0"),
        SlotMapping("Fresnel Inner Transparency Max Tint", None, None, None, None, "UV0"),
        SlotMapping("Fresnel Outer Transparency", None, None, None, None, "UV0"),
        SlotMapping("Glass thickness", "Thickness", None, None, None, "UV0") >>,
    vectors |-> <<
        SlotMapping("ColorFront", "Color", None, None, None, "UV0"),
        SlotMapping("Base Color", "Color", None, None, None, "UV0") >>,
    switches |-> << >>,
    component_masks |-> << >> ]

trunk_mappings ==
  [ textures |-> <<
        SlotMapping("Trunk_BaseColor", "Diffuse", None, None, None, "UV0"),
        SlotMapping("Trunk_Specular", "SpecularMasks", None, None, None, "UV0"),
        SlotMapping("Trunk_Normal", "Normals", None, None, None, "UV0") >>,
    scalars |-> << >>,
    vectors |-> << >>,
    switches |-> << >>,
    component_masks |-> << >> ]

foliage_mappings ==
  [ textures |-> <<
        SlotMapping("Diffuse", None, None, None, None, "UV0"),
        SlotMapping("Normals", None, None, None, None, "UV0"),
        SlotMapping("MaskTexture", None, None, None, None, "UV0") >>,
    scalars |-> <<
        SlotMapping("Roughness Leafs", "Roughness", None, None, None, "UV0"),
        SlotMapping("Specular_Leafs", "Specular", None, None, None, "UV0") >>,
    vectors |-> <<
        SlotMapping("Color1_Base", None, None, None, None, "UV0"),
        SlotMapping("Color2_Lit", None, None, None, None, "UV0"),
        SlotMapping("Color3_Shadows", None, None, None, None, "UV0") >>,
    switches |-> << >>,
    component_masks |-> << >> ]

gradient_mappings ==
  [ textures |-> <<
        SlotMapping("Diffuse", None, None, None, None, "UV0"),
        SlotMapping("Layer Mask", None, "Layer Mask Alpha", None, None, "UV0"),
        SlotMapping("SkinFX_Mask", None, None, None, None, "UV0"),
        SlotMapping("Layer1_Gradient", None, None, None, None, "UV0"),
        SlotMapping("Layer2_Gradient", None, None, None, None, "UV0"),
        SlotMapping("Layer3_Gradient", None, None, None, None, "UV0"),
        SlotMapping("Layer4_Gradient", None, None, None, None, "UV0"),
        SlotMapping("Layer5_Gradient", None, None, None, None, "UV0") >>,
    scalars |-> << >>,
    vectors |-> << >>,
    switches |-> <<
        SlotMapping("use Alpha Channel as mask", "Use Layer Mask Alpha", None, None, None, "UV0") >>,
    component_masks |-> <<
        SlotMapping("GmapSkinCustomization_Channel", None, None, None, None, "UV0") >> ]

\* the MappingCollection a local socket_mappings / target_mappings refers to
Mappings(table) ==
    CASE table = "default_mappings" -> default_mappings
      [] table = "layer_mappings" -> layer_mappings
      [] table = "toon_mappings" -> toon_mappings
      [] table = "valet_mappings" -> valet_mappings
      [] table = "glass_mappings" -> glass_mappings
      [] table = "trunk_mappings" -> trunk_mappings
      [] table = "foliage_mappings" -> foliage_mappings
      [] table = "gradient_mappings" -> gradient_mappings

layer_switch_names ==
    {"Use 2 Layers", "Use 3 Layers", "Use 4 Layers", "Use 5 Layers", "Use 6 Layers", "Use 7 Layers",
     "Use 2 Materials", "Use 3 Materials", "Use 4 Materials", "Use 5 Materials", "Use 6 Materials",
     "Use 7 Materials", "Use_Multiple_Material_Textures"}

extra_layer_names ==
    {"Diffuse_Texture_2", "SpecularMasks_2", "Normals_Texture_2", "Emissive_Texture_2",
     "Diffuse_Texture_3", "SpecularMasks_3", "Normals_Texture_3", "Emissive_Texture_3",
     "Diffuse_Texture_4", "SpecularMasks_4", "Normals_Texture_4", "Emissive_Texture_4",
     "Diffuse_Texture_5", "SpecularMasks_5", "Normals_Texture_5", "Emissive_Texture_5",
     "Diffuse_Texture_6", "SpecularMasks_6", "Normals_Texture_6", "Emissive_Texture_6"}

emissive_toggle_names == {"Emissive", "UseBasicEmissive", "UseAdvancedEmissive", "Use Emissive"}

emission_crop_vector_params ==
    {"EmissiveUVs_RG_UpperLeftCorner_BA_LowerRightCorner",
     "Emissive Texture UVs RG_TopLeft BA_BottomRight",
     "Emissive 2 UV Positioning (RG)UpperLeft (BA)LowerRight",
     "EmissiveUVPositioning (RG)UpperLeft (BA)LowerRight"}

emission_crop_switch_params == {"CroppedEmissive", "Manipulate Emissive Uvs"}

vertex_crunch_names == {<<"MI_VertexCrunch">>, <<"M_VertexCrunch">>}

----------------------------------------------------------------------------
(* The template library (node groups of fortnite_porting_data.blend).  The   *)
(* blend file is not part of the sources: a template is taken to offer the   *)
(* input sockets that the code addresses on it.                              *)

\* the first occurrences of the elements of s, in order
Dedup(s) ==
    LET firsts == {i \in 1..Len(s) : \A j \in 1..(i - 1) : s[j] # s[i]}
    IN  [k \in 1..Cardinality(firsts) |->
            s[CHOOSE i \in firsts : Cardinality({j \in firsts : j < i}) = k - 1]]

\* the sockets the rules address: slot, alpha_slot and switch_slot of each
RuleSlots(rules) ==
    SelectSeq([k \in 1..(3 * Len(rules)) |->
                  CASE k % 3 = 1 -> rules[(k + 2) \div 3].slot
                    [] k % 3 = 2 -> rules[(k + 2) \div 3].alpha_slot
                    [] OTHER -> rules[(k + 2) \div 3].switch_slot],
              LAMBDA s : s # None)

TableSlots(t) ==
    RuleSlots(t.textures) \o RuleSlots(t.scalars) \o RuleSlots(t.vectors)
        \o RuleSlots(t.switches) \o RuleSlots(t.component_masks)

Templates ==
    {"FP Material", "FP Layer", "FP Toon", "FP Valet", "FP Glass", "FP Foliage", "FP Gradient",
     "FP Switch", "FP Vertex Alpha", "FP Texture Cropping"}

\* input sockets of each template, in order
TemplateInputs ==
    [t \in Templates |->
        CASE t = "FP Material" ->
                Dedup(TableSlots(default_mappings)
                      \o <<"AO", "Cavity", "Subsurface", "Alpha", "Emission", "Emission Multiplier",
                           "Emission Strength", "Skin Color", "Skin Boost">>)
          [] t = "FP Layer" -> Dedup(TableSlots(layer_mappings) \o <<"Alpha">>)
          [] t = "FP Toon" -> Dedup(TableSlots(toon_mappings) \o <<"Brightness", "Alpha">>)
          [] t = "FP Valet" -> Dedup(TableSlots(valet_mappings) \o <<"Alpha">>)
          [] t = "FP Glass" -> Dedup(TableSlots(glass_mappings) \o <<"Alpha">>)
          [] t = "FP Foliage" -> Dedup(TableSlots(foliage_mappings) \o <<"Alpha">>)
          [] t = "FP Gradient" -> Dedup(TableSlots(gradient_mappings))
          [] t = "FP Switch" -> <<"Value">>
          [] t = "FP Vertex Alpha" -> <<"Color">>
          [] t = "FP Texture Cropping" -> <<"Image", "Left", "Top", "Right", "Bottom">>]

\* the items of the "Colors" panel of FP Gradient's interface
GradientColorItems ==
    <<"Layer1_Gradient", "Layer2_Gradient", "Layer3_Gradient", "Layer4_Gradient", "Layer5_Gradient">>

----------------------------------------------------------------------------
(* Blender data: materials, node trees, images *)

\* image files present under the assets folder (os.path.exists)
ExistingFiles == {"/T/A.A", "/T/B.B", "/T/C.C"}

\* import_image: the image loaded for a path, None when the file does not exist.
\* An image is identified by the path it was loaded from.
import_image(path) == IF path \in ExistingFiles THEN path ELSE None

\* bpy.data.node_groups.get(name); node_groups maps the name of each node
\* group of the library to its input sockets
node_groups_get(name) == IF name \in DOMAIN node_groups THEN name ELSE None

\* nodes.new(type): a node with Blender's defaults
Node(id, type) ==
    [id |-> id, type |-> type, node_tree |-> None, label |-> "", location |-> <<0, 0>>,
     image |-> None, colorspace |-> "", value |-> << >>, uv_map |-> "", inputs |-> << >>]

\* the input sockets of a node, by name and in order
NodeInputs(node) ==
    CASE node.type = "ShaderNodeGroup" ->
            IF node.node_tree = None THEN << >> ELSE node_groups[node.node_tree]
      [] node.type = "ShaderNodeTexImage" -> <<"Vector">>
      [] node.type = "ShaderNodeOutputMaterial" -> <<"Surface", "Volume", "Displacement">>
      [] OTHER -> << >>

\* the number of output sockets of a node
NodeOutputs(node) ==
    CASE node.type = "ShaderNodeGroup" -> IF node.node_tree = None THEN 0 ELSE 1
      [] node.type = "ShaderNodeTexImage" -> 2
      [] node.type = "ShaderNodeVertexColor" -> 2
      [] node.type = "ShaderNodeOutputMaterial" -> 0
      [] OTHER -> 1

\* inputs.find(name): index from 0, -1 when absent
InputsFind(node, name) == FirstIndex(NodeInputs(node), LAMBDA s : s = name) - 1

HasInput(node, name) == InputsFind(node, name) >= 0

\* bpy.data.materials.new(name): Blender's defaults; the graph is empty
Material(name) ==
    [name |-> name, use_nodes |-> FALSE, blend_method |-> "OPAQUE", shadow_method |-> "OPAQUE",
     show_transparent_back |-> TRUE, use_sss_translucency |-> FALSE, crunch_verts |-> FALSE,
     nodes |-> << >>, links |-> << >>]

\* the name Blender gives a new datablock: the requested one, or with a numeric
\* suffix when it is taken
UniqueName(mats, name) ==
    LET taken(n) == \E i \in 1..Len(mats) : mats[i].name = n
    IN IF ~taken(name) THEN name
       ELSE IF ~taken(name \o <<".001">>) THEN name \o <<".001">>
       ELSE IF ~taken(name \o <<".002">>) THEN name \o <<".002">>
       ELSE name \o <<".003">>

(* The graph under construction: g.material is the material object, g.nid   *)
(* the number of nodes created so far, and the locals of import_material:   *)
(* shader_node (a node id), socket_mappings, unused_parameter_offset.       *)
(* g.error is set when an exception leaves import_material; g.events lists  *)
(* the calls of the per-kind resolvers (history).                           *)

NodeOf(g, id) ==
    LET i == FirstIndex(g.material.nodes, LAMBDA n : n.id = id) IN g.material.nodes[i]

\* nodes.new(type)
NodesNew(g, type) ==
    [g EXCEPT !.nid = g.nid + 1,
              !.material.nodes = Append(g.material.nodes, Node(g.nid + 1, type))]

\* the node `id` of the graph replaced by `node`
SetNode(g, id, node) ==
    [g EXCEPT !.material.nodes =
        [i \in 1..Len(g.material.nodes) |->
            IF g.material.nodes[i].id = id THEN node ELSE g.material.nodes[i]]]

\* assignments to the attributes of the node `id`
UpdateNode(g, id, update(_)) == SetNode(g, id, update(NodeOf(g, id)))

\* nodes.remove(node): the node and its links go
NodesRemove(g, id) ==
    [g EXCEPT !.material.nodes = SelectSeq(g.material.nodes, LAMBDA n : n.id # id),
              !.material.links = SelectSeq(g.material.links, LAMBDA l : l.from # id /\ l.to # id)]

\* links.new(from.outputs[out], to.inputs[slot]): an input socket holds one link
LinksNew(g, from, out, to, slot) ==
    [g EXCEPT !.material.links =
        Append(SelectSeq(g.material.links, LAMBDA l : ~(l.to = to /\ l.slot = slot)),
               [from |-> from, out |-> out, to |-> to, slot |-> slot])]

\* node.inputs[slot].links
InputLinks(g, id, slot) == SelectSeq(g.material.links, LAMBDA l : l.to = id /\ l.slot = slot)

\* node.inputs[slot].default_value = value
SetInput(g, id, slot, value) ==
    UpdateNode(g, id, LAMBDA n : [n EXCEPT !.inputs = (slot :> value) @@ n.inputs])

\* get_socket_pos(node, index)
get_socket_pos(node, index) == <<node.location[1], node.location[2] + (0 - 80) + (0 - 22) * index>>

\* history: one call of a resolver, its parameter, how it ended, the node it
\* created for the parameter (0 when it created none) and the value of
\* unused_parameter_offset when it returned
Event(g, kind, data, add_unused_params, outcome, node) ==
    [g EXCEPT !.events = Append(g.events,
        [kind |-> kind, name |-> Get(data, "Name"), value |-> Get(data, "Value"),
         top |-> add_unused_params, outcome |-> outcome, node |-> node,
         offset |-> g.unused_parameter_offset])]

\* an exception leaves import_material
Raise(g) == [g EXCEPT !.error = TRUE]

\* g unchanged once an exception is on its way out, else op applied to it
Then(g, op(_)) == IF g.error THEN g ELSE op(g)

----------------------------------------------------------------------------
(* The per-kind resolvers of import_material.  Each body is a try block:   *)
(* what was done before a raise stays done, and the raise ends the call.   *)

\* value["R"], value["G"], ... can be read
HasKeys(value, keys) == value # << >> /\ keys \subseteq DOMAIN value[1]

\* an exposure that leaves the offset where it was
Expose_in_place(g, id, name, pitch) ==
    UpdateNode(g, id, LAMBDA n : [n EXCEPT !.label = name[1],
                                           !.location = <<400, g.unused_parameter_offset>>])

\* an unmapped parameter exposed by its node: label, place, and the offset moved on
Expose(g, id, name, pitch) ==
    [UpdateNode(g, id, LAMBDA n : [n EXCEPT !.label = name[1],
                                            !.location = <<400, g.unused_parameter_offset>>])
        EXCEPT !.unused_parameter_offset = g.unused_parameter_offset - pitch]

\* a wiring that takes the parameter's name for the slot, whatever the rule declares
texture_param_mapped_by_name(g, id, data, rule, x, y, tn, target_node, add_unused_params) ==
    LET done(gx, outcome) == Event(gx, "texture", data, add_unused_params, outcome, id)
        g3 == UpdateNode(g, id, LAMBDA n : [n EXCEPT !.location = <<x - 300, y>>])
        g4 == LinksNew(g3, id, 0, target_node, data.Name)
        g5 == IF rule.alpha_slot # None THEN LinksNew(g4, id, 1, target_node, rule.alpha_slot) ELSE g4
    IN  IF ~HasInput(tn, data.Name) THEN done(g3, "raised")
        ELSE IF rule.alpha_slot # None /\ ~HasInput(tn, rule.alpha_slot) THEN done(g4, "raised")
        ELSE done(g5, "mapped")

\* texture_param from the lookup of the mapping on, when a rule maps the
\* texture: g holds the image node `id`, (x, y) is the place of the socket
texture_param_mapped(g, id, data, rule, x, y, tn, target_node, add_unused_params) ==
    LET uv == id + 1
        done(gx, outcome) == Event(gx, "texture", data, add_unused_params, outcome, id)
        g3 == UpdateNode(g, id, LAMBDA n : [n EXCEPT !.location = <<x - 300, y>>])
        g4 == LinksNew(g3, id, 0, target_node, rule.slot)
        g5 == IF rule.alpha_slot # None THEN LinksNew(g4, id, 1, target_node, rule.alpha_slot) ELSE g4
        g6 == NodesNew(g5, "ShaderNodeUVMap")
        g7 == UpdateNode(g6, uv, LAMBDA n : [n EXCEPT !.location = <<x - 300 - 250, y>>,
                                                       !.uv_map = rule.coords])
        g8 == LinksNew(g7, uv, 0, id, "Vector")
    IN  IF ~HasInput(tn, rule.slot) THEN done(g3, "raised")
        ELSE IF rule.alpha_slot # None /\ ~HasInput(tn, rule.alpha_slot) THEN done(g4, "raised")
        ELSE IF rule.switch_slot # None THEN done(g5, "raised")   \* reads `value`, which this function does not define
        ELSE IF rule.coords # "UV0" THEN done(g8, "mapped")
        ELSE done(g5, "mapped")

\* texture_param once the node `id` is created: image is the loaded image,
\* mappings the rule found for the name (or none)
texture_param_node(g, id, data, name, image, mappings, tn, target_node, add_unused_params) ==
    LET done(gx, outcome) == Event(gx, "texture", data, add_unused_params, outcome, id)
        g2 == UpdateNode(g, id, LAMBDA n : [n EXCEPT
                  !.image = image,
                  !.colorspace = IF TruthyBool(Get(data, "sRGB")) THEN "sRGB" ELSE "Non-Color"])
    IN  IF image = None THEN done(g, "raised")    \* path.split or node.image.alpha_mode raises
        ELSE IF mappings = << >> THEN
            IF ~add_unused_params THEN done(g2, "dropped")
            ELSE IF name = << >> THEN done(g2, "raised")    \* node.label = None
            ELSE done(Expose(g2, id, name, 50), "exposed")
        ELSE texture_param_mapped(g2, id, data, mappings[1],
                                  get_socket_pos(tn, InputsFind(tn, mappings[1].slot))[1],
                                  get_socket_pos(tn, InputsFind(tn, mappings[1].slot))[2],
                                  tn, target_node, add_unused_params)

\* the image of a texture parameter: self.import_image(path)
texture_image(path) == IF path = << >> THEN None ELSE import_image(path[1])

texture_param(g, data, target_mappings, target_node, add_unused_params) ==
    texture_param_node(NodesNew(g, "ShaderNodeTexImage"), g.nid + 1, data, Get(data, "Name"),
                       texture_image(Get(data, "Value")),
                       first(target_mappings.textures, LAMBDA x : <<x.name>> = Get(data, "Name")),
                       NodeOf(g, target_node), target_node, add_unused_params)

scalar_param(g, data, target_mappings, target_node, add_unused_params) ==
    LET name == Get(data, "Name")
        value == Get(data, "Value")
        id == g.nid + 1
        mappings == first(target_mappings.scalars, LAMBDA x : <<x.name>> = name)
        rule == mappings[1]
        tn == NodeOf(g, target_node)
        done(gx, outcome, node) == Event(gx, "scalar", data, add_unused_params, outcome, node)
        u1 == NodesNew(g, "ShaderNodeValue")
        u2 == UpdateNode(u1, id, LAMBDA n : [n EXCEPT !.value = value])
        \* value_func is int(value): the scalars of the model are integers
        g1 == SetInput(g, target_node, rule.slot, value)
        g2 == SetInput(g1, target_node, rule.switch_slot, IF TruthyNum(value) THEN <<1>> ELSE <<0>>)
    IN  IF mappings = << >> THEN
            IF ~add_unused_params THEN done(g, "dropped", 0)
            ELSE IF value = << >> THEN done(u1, "raised", id)   \* default_value = None
            ELSE IF name = << >> THEN done(u2, "raised", id)    \* node.label = None
            ELSE done(Expose(u2, id, name, 100), "exposed", id)
        ELSE IF value = << >> \/ ~HasInput(tn, rule.slot) THEN done(g, "raised", 0)
        ELSE IF rule.switch_slot = None THEN done(g1, "mapped", 0)
        ELSE IF ~HasInput(tn, rule.switch_slot) THEN done(g1, "raised", 0)
        ELSE done(g2, "mapped", 0)

vector_param(g, data, target_mappings, target_node, add_unused_params) ==
    LET name == Get(data, "Name")
        value == Get(data, "Value")
        id == g.nid + 1
        mappings == first(target_mappings.vectors, LAMBDA x : <<x.name>> = name)
        rule == mappings[1]
        tn == NodeOf(g, target_node)
        done(gx, outcome, node) == Event(gx, "vector", data, add_unused_params, outcome, node)
        u1 == NodesNew(g, "ShaderNodeRGB")
        u2 == UpdateNode(u1, id, LAMBDA n :
                  [n EXCEPT !.value = <<value[1].R, value[1].G, value[1].B, value[1].A>>])
        g1 == SetInput(g, target_node, rule.slot, <<value[1].R, value[1].G, value[1].B, 1>>)
        g2 == IF rule.alpha_slot # None THEN SetInput(g1, target_node, rule.alpha_slot, <<value[1].A>>) ELSE g1
        g3 == SetInput(g2, target_node, rule.switch_slot, <<1>>)   \* 1 if value else 0, value a non-empty dict
    IN  IF mappings = << >> THEN
            IF ~add_unused_params THEN done(g, "dropped", 0)
            ELSE IF ~HasKeys(value, {"R", "G", "B", "A"}) THEN done(u1, "raised", id)
            ELSE IF name = << >> THEN done(u2, "raised", id)
            ELSE done(Expose(u2, id, name, 200), "exposed", id)
        ELSE IF rule.value_func # None THEN done(g, "raised", 0)     \* int(dict)
        ELSE IF ~HasKeys(value, {"R", "G", "B"}) \/ ~HasInput(tn, rule.slot) THEN done(g, "raised", 0)
        ELSE IF rule.alpha_slot # None /\ (~HasKeys(value, {"A"}) \/ ~HasInput(tn, rule.alpha_slot))
             THEN done(g1, "raised", 0)
        ELSE IF rule.switch_slot = None THEN done(g2, "mapped", 0)
        ELSE IF ~HasInput(tn, rule.switch_slot) THEN done(g2, "raised", 0)
        ELSE done(g3, "mapped", 0)

component_mask_param(g, data, target_mappings, target_node, add_unused_params) ==
    LET name == Get(data, "Name")
        value == Get(data, "Value")
        id == g.nid + 1
        mappings == first(target_mappings.component_masks, LAMBDA x : <<x.name>> = name)
        rule == mappings[1]
        tn == NodeOf(g, target_node)
        done(gx, outcome, node) == Event(gx, "component_mask", data, add_unused_params, outcome, node)
        u1 == NodesNew(g, "ShaderNodeRGB")
        u2 == UpdateNode(u1, id, LAMBDA n :
                  [n EXCEPT !.value = <<value[1].R, value[1].G, value[1].B, value[1].A>>])
    IN  IF mappings = << >> THEN
            IF ~add_unused_params THEN done(g, "dropped", 0)
            ELSE IF ~HasKeys(value, {"R", "G", "B", "A"}) THEN done(u1, "raised", id)
            ELSE IF name = << >> THEN done(u2, "raised", id)
            ELSE done(Expose(u2, id, name, 200), "exposed", id)
        ELSE IF rule.value_func # None \/ ~HasKeys(value, {"R", "G", "B", "A"}) \/ ~HasInput(tn, rule.slot)
             THEN done(g, "raised", 0)
        ELSE done(SetInput(g, target_node, rule.slot,
                           <<value[1].R, value[1].G, value[1].B, value[1].A>>), "mapped", 0)

switch_param(g, data, target_mappings, target_node, add_unused_params) ==
    LET name == Get(data, "Name")
        value == Get(data, "Value")
        id == g.nid + 1
        mappings == first(target_mappings.switches, LAMBDA x : <<x.name>> = name)
        rule == mappings[1]
        tn == NodeOf(g, target_node)
        done(gx, outcome, node) == Event(gx, "switch", data, add_unused_params, outcome, node)
        u1 == NodesNew(g, "ShaderNodeGroup")
        u2 == UpdateNode(u1, id, LAMBDA n : [n EXCEPT !.node_tree = node_groups_get("FP Switch")])
        u3 == UpdateNode(u2, id, LAMBDA n :
                  [n EXCEPT !.inputs = (NodeInputs(n)[1] :> (IF TruthyBool(value) THEN <<1>> ELSE <<0>>))])
    IN  IF mappings = << >> THEN
            IF ~add_unused_params THEN done(g, "dropped", 0)
            ELSE IF node_groups_get("FP Switch") = None THEN done(u2, "raised", id)   \* node.inputs[0]
            ELSE IF name = << >> THEN done(u3, "raised", id)
            ELSE done(Expose(u3, id, name, 125), "exposed", id)
        ELSE IF rule.value_func # None \/ ~HasInput(tn, rule.slot) THEN done(g, "raised", 0)
        ELSE done(SetInput(g, target_node, rule.slot, IF TruthyBool(value) THEN <<1>> ELSE <<0>>),
                  "mapped", 0)

\* resolvers without their `except`: a raise leaves import_material
resolve_param_uncaught(g, kind, data, target_mappings, target_node, add_unused_params) ==
    LET caught(x) == IF x.events[Len(x.events)].outcome = "raised" THEN Raise(x) ELSE x
    IN  caught(CASE kind = "texture" -> texture_param(g, data, target_mappings, target_node, add_unused_params)
                 [] kind = "scalar" -> scalar_param(g, data, target_mappings, target_node, add_unused_params)
                 [] kind = "vector" -> vector_param(g, data, target_mappings, target_node, add_unused_params)
                 [] kind = "component_mask" ->
                       component_mask_param(g, data, target_mappings, target_node, add_unused_params)
                 [] kind = "switch" -> switch_param(g, data, target_mappings, target_node, add_unused_params))

\* the resolver of a kind applied to one parameter
resolve_param(g, kind, data, target_mappings, target_node, add_unused_params) ==
    CASE kind = "texture" -> texture_param(g, data, target_mappings, target_node, add_unused_params)
      [] kind = "scalar" -> scalar_param(g, data, target_mappings, target_node, add_unused_params)
      [] kind = "vector" -> vector_param(g, data, target_mappings, target_node, add_unused_params)
      [] kind = "component_mask" ->
            component_mask_param(g, data, target_mappings, target_node, add_unused_params)
      [] kind = "switch" -> switch_param(g, data, target_mappings, target_node, add_unused_params)

\* a list of parameters, each tagged with its kind
Tagged(kind, list) == [i \in 1..Len(list) |-> [kind |-> kind, data |-> list[i]]]

RECURSIVE ForEachParam(_, _, _, _, _)
\* the loops of setup_params over the tagged parameters `list`
ForEachParam(g, list, target_mappings, target_node, add_unused_params) ==
    IF list = << >> THEN g
    ELSE Then(resolve_param(g, Head(list).kind, Head(list).data, target_mappings, target_node,
                            add_unused_params),
              LAMBDA x : ForEachParam(x, Tail(list), target_mappings, target_node, add_unused_params))

\* setup_params(mappings, target_node, add_unused_params) over the merged
\* lists p: textures, scalars, vectors, component masks, switches, in this order
setup_params(g, p, mappings, target_node, add_unused_params) ==
    ForEachParam(g, Tagged("texture", p.textures) \o Tagged("scalar", p.scalars)
                        \o Tagged("vector", p.vectors)
                        \o Tagged("component_mask", p.component_masks)
                        \o Tagged("switch", p.switches),
                 mappings, target_node, add_unused_params)
----------------------------------------------------------------------------
(* Override merge and fingerprint *)

\* a merge that appends without replacing
replace_or_add_parameter_append(list, replace_item) ==
    IF replace_item = << >> THEN list ELSE Append(list, replace_item[1])

\* a merge that leaves the loop at the first entry of the name
replace_or_add_parameter_first(list, replace_item) ==
    IF replace_item = << >> THEN list
    ELSE LET item == replace_item[1]
             found == FirstIndex(list, LAMBDA x : Get(x, "Name") = Get(item, "Name"))
         IN  IF found = 0 THEN Append(list, item) ELSE [list EXCEPT ![found] = item]

\* replace_or_add_parameter(list, replace_item); replace_item is << >> for None
replace_or_add_parameter(list, replace_item) ==
    IF replace_item = << >> THEN list
    ELSE LET item == replace_item[1]
             same(x) == Get(x, "Name") = Get(item, "Name")
             replaced == [index \in 1..Len(list) |-> IF same(list[index]) THEN item ELSE list[index]]
         IN  IF ~any(replaced, same) THEN Append(replaced, item) ELSE replaced

RECURSIVE replace_or_add_all(_, _)
\* `for x in items: replace_or_add_parameter(list, x)`
replace_or_add_all(list, items) ==
    IF items = << >> THEN list
    ELSE replace_or_add_all(replace_or_add_parameter(list, <<Head(items)>>), Tail(items))

RECURSIVE SumHash(_)
\* `for x in xs: additional_hash += x.get("Hash")`
SumHash(xs) == IF xs = << >> THEN 0 ELSE Head(xs).Hash + SumHash(Tail(xs))

\* meta_data.get("TextureData") when it is truthy, else the empty list
TextureDataOf(meta_data) ==
    LET texture_data == Get(meta_data, "TextureData")
    IN IF texture_data = << >> THEN << >> ELSE texture_data[1]

\* a filter that lets every OverrideParameters set pass
ApplicableOverrides_all(material_data, meta_data) == meta_data.OverrideParameters

\* where(meta_data.get("OverrideParameters"), MaterialNameToAlter == material_name)
ApplicableOverrides(material_data, meta_data) ==
    where(meta_data.OverrideParameters,
          LAMBDA param : Get(param, "MaterialNameToAlter") = <<material_data.Name>>)

\* an additional_hash that adds the Hash of every OverrideParameters set
additional_hash_of_all(material_data, meta_data) ==
    SumHash(TextureDataOf(meta_data)) + SumHash(meta_data.OverrideParameters)

\* additional_hash of import_material
additional_hash_of(material_data, meta_data) ==
    SumHash(TextureDataOf(meta_data)) + SumHash(ApplicableOverrides(material_data, meta_data))

\* material_name after the suffix is appended
material_name_of(material_data, meta_data) ==
    LET additional_hash == additional_hash_of(material_data, meta_data)
    IN IF additional_hash # 0
       THEN <<material_data.Name>> \o <<"_">> \o hash_code(additional_hash)
       ELSE <<material_data.Name>>

\* a fingerprint that ignores the layers
material_hash_plain(material_data, meta_data) == material_data.Hash

\* material_hash after the additional hash is added
material_hash_of(material_data, meta_data) ==
    LET additional_hash == additional_hash_of(material_data, meta_data)
    IN IF additional_hash # 0 THEN material_data.Hash + additional_hash ELSE material_data.Hash

RECURSIVE merge_texture_data(_, _)
\* the TextureData loop: Diffuse, Normal, Specular of each entry, in this order
merge_texture_data(textures, texture_data) ==
    IF texture_data = << >> THEN textures
    ELSE LET texture_data_inst == Head(texture_data)
             t1 == replace_or_add_parameter(textures, Get(texture_data_inst, "Diffuse"))
             t2 == replace_or_add_parameter(t1, Get(texture_data_inst, "Normal"))
             t3 == replace_or_add_parameter(t2, Get(texture_data_inst, "Specular"))
         IN  merge_texture_data(t3, Tail(texture_data))

RECURSIVE merge_override_parameters_all(_, _)
\* a merge that takes the switches of a set as well
merge_override_parameters_all(p, override_parameters) ==
    IF override_parameters = << >> THEN p
    ELSE LET override_parameter == Head(override_parameters)
             set_switches == IF "Switches" \in DOMAIN override_parameter
                             THEN override_parameter.Switches ELSE << >>
         IN  merge_override_parameters_all(
                [p EXCEPT !.textures = replace_or_add_all(p.textures, override_parameter.Textures),
                          !.scalars = replace_or_add_all(p.scalars, override_parameter.Scalars),
                          !.vectors = replace_or_add_all(p.vectors, override_parameter.Vectors),
                          !.switches = replace_or_add_all(p.switches, set_switches)],
                Tail(override_parameters))

RECURSIVE merge_override_parameters(_, _)
\* the OverrideParameters loop over textures, scalars and vectors
merge_override_parameters(p, override_parameters) ==
    IF override_parameters = << >> THEN p
    ELSE LET override_parameter == Head(override_parameters)
         IN  merge_override_parameters(
                [p EXCEPT !.textures = replace_or_add_all(p.textures, override_parameter.Textures),
                          !.scalars = replace_or_add_all(p.scalars, override_parameter.Scalars),
                          !.vectors = replace_or_add_all(p.vectors, override_parameter.Vectors)],
                Tail(override_parameters))

\* the five lists of a descriptor
ParamsOf(material_data) ==
    [textures |-> material_data.Textures, scalars |-> material_data.Scalars,
     vectors |-> material_data.Vectors, switches |-> material_data.Switches,
     component_masks |-> material_data.ComponentMasks]

\* the five lists after the merge of import_material
merge_params(material_data, meta_data) ==
    LET p == ParamsOf(material_data)
        p1 == [p EXCEPT !.textures = merge_texture_data(p.textures, TextureDataOf(meta_data))]
    IN  merge_override_parameters(p1, ApplicableOverrides(material_data, meta_data))
----------------------------------------------------------------------------
(* Family selection, base build and post-processing of import_material *)

\* replace_shader_node(name)
replace_shader_node(g, name) ==
    [UpdateNode(NodesNew(NodesRemove(g, g.shader_node), "ShaderNodeGroup"), g.nid + 1,
                LAMBDA n : [n EXCEPT !.node_tree = node_groups_get(name)])
        EXCEPT !.shader_node = g.nid + 1]

layered_family(g, p, material_data) ==
    IF TruthyBool(get_param_multiple(p.switches, layer_switch_names))
           /\ TruthyStr(get_param_multiple(p.textures, extra_layer_names))
    THEN [replace_shader_node(g, "FP Layer") EXCEPT !.socket_mappings = "layer_mappings"]
    ELSE g

toon_family(g, p, material_data) ==
    IF \E x \in {"LitDiffuse", "ShadedDiffuse"} : TruthyStr(get_param(p.textures, x))
    THEN [replace_shader_node(g, "FP Toon") EXCEPT !.socket_mappings = "toon_mappings"]
    ELSE g

valet_family(g, p, material_data) ==
    IF Get(material_data, "AbsoluteParent") = <<"M_FN_Valet_Master">>
    THEN [replace_shader_node(g, "FP Valet") EXCEPT !.socket_mappings = "valet_mappings"]
    ELSE g

glass_family(g, p, material_data) ==
    IF TruthyBool(Get(material_data, "UseGlassMaterial"))
    THEN [replace_shader_node(g, "FP Glass") EXCEPT
             !.socket_mappings = "glass_mappings",
             !.material.blend_method = "BLEND",
             !.material.show_transparent_back = FALSE]
    ELSE g

trunk_family(g, p, material_data) ==
    IF TruthyBool(get_param(p.switches, "IsTrunk"))
    THEN [g EXCEPT !.socket_mappings = "trunk_mappings"]
    ELSE g

\* the foliage test without `and not is_trunk`
foliage_family_unguarded(g, p, material_data) ==
    IF TruthyBool(Get(material_data, "UseFoliageMaterial"))
    THEN [replace_shader_node(g, "FP Foliage") EXCEPT
             !.socket_mappings = "foliage_mappings",
             !.material.use_sss_translucency = TRUE]
    ELSE g

foliage_family(g, p, material_data) ==
    IF TruthyBool(Get(material_data, "UseFoliageMaterial")) /\ ~TruthyBool(get_param(p.switches, "IsTrunk"))
    THEN [replace_shader_node(g, "FP Foliage") EXCEPT
             !.socket_mappings = "foliage_mappings",
             !.material.use_sss_translucency = TRUE]
    ELSE g

\* the sequence of `if` statements that choose socket_mappings and the root
select_family(g, p, material_data) ==
    foliage_family(
        trunk_family(
            glass_family(
                valet_family(
                    toon_family(
                        layered_family(g, p, material_data),
                        p, material_data),
                    p, material_data),
                p, material_data),
            p, material_data),
        p, material_data)

\* the vertex-crunch test
is_vertex_crunch(material_name, p) ==
    material_name \in vertex_crunch_names \/ get_param(p.scalars, "HT_CrunchVerts") = <<1>>

\* the vertex-crunch branch
vertex_crunch(g) ==
    IF ~HasInput(NodeOf(g, g.shader_node), "Alpha")
    THEN Raise([g EXCEPT !.material.crunch_verts = TRUE, !.crunch = TRUE])
    ELSE SetInput([g EXCEPT !.material.crunch_verts = TRUE, !.crunch = TRUE],
                  g.shader_node, "Alpha", <<0>>)

\* AO, Cavity, Subsurface from the options
post_options(g, options) ==
    SetInput(SetInput(SetInput(g, g.shader_node, "AO", <<options.AmbientOcclusion>>),
                      g.shader_node, "Cavity", <<options.Cavity>>),
             g.shader_node, "Subsurface", <<options.Subsurface>>)

\* skin tint from the mesh metadata
post_skin_color(g, meta_data) ==
    LET skin_color == Get(meta_data, "SkinColor")
    IN  IF skin_color # << >> /\ skin_color[1].A # 0
        THEN SetInput(SetInput(g, g.shader_node, "Skin Color",
                               <<skin_color[1].R, skin_color[1].G, skin_color[1].B, 1>>),
                      g.shader_node, "Skin Boost", <<skin_color[1].A>>)
        ELSE g

\* an emissive-disable that looks at every toggle
post_emissive_toggle_any(g, p) ==
    IF any(p.switches, LAMBDA param : param.Name \in emissive_toggle_names /\ param.Value = FALSE)
    THEN SetInput(g, g.shader_node, "Emission Strength", <<0>>)
    ELSE g

\* emissive-disable: `get_param_multiple(switches, emissive_toggle_names) is False`
post_emissive_toggle(g, p) ==
    IF get_param_multiple(p.switches, emissive_toggle_names) = <<FALSE>>
    THEN SetInput(g, g.shader_node, "Emission Strength", <<0>>)
    ELSE g

\* roughness swizzle when an SRM texture is present
post_swizzle(g, p) ==
    IF TruthyStr(get_param(p.textures, "SRM"))
    THEN SetInput(g, g.shader_node, "SwizzleRoughnessToGreen", <<1>>)
    ELSE g

\* vertex-colour alpha mask.  The loop over the scalars tests the key
\* "Hide Element" of each entry, which no entry has: it changes nothing.
post_vertex_colors(g, p) ==
    IF TruthyBool(get_param(p.switches, "Use Vertex Colors for Mask")) THEN
        LET color_node == g.nid + 1
            mask_node == g.nid + 2
            g1 == NodesNew(g, "ShaderNodeVertexColor")
            g2 == UpdateNode(g1, color_node, LAMBDA n : [n EXCEPT !.location = <<0 - 400, 0 - 560>>])
            g3 == NodesNew(g2, "ShaderNodeGroup")
            g4 == UpdateNode(g3, mask_node, LAMBDA n :
                      [n EXCEPT !.node_tree = node_groups_get("FP Vertex Alpha"),
                                !.location = <<0 - 200, 0 - 560>>])
            g5 == LinksNew(g4, color_node, 0, mask_node, node_groups["FP Vertex Alpha"][1])
        IN  IF node_groups_get("FP Vertex Alpha") = None THEN Raise(g4)    \* mask_node.inputs[0]
            ELSE LinksNew(g5, mask_node, 0, g.shader_node, "Alpha")
    ELSE g

\* emissive cropping ahead of an existing emissive link
post_emission_crop(g, p) ==
    LET crop_bounds == get_param_multiple(p.vectors, emission_crop_vector_params)
        emission_links == InputLinks(g, g.shader_node, "Emission")
    IN  IF TruthyDict(crop_bounds)
              /\ TruthyBool(get_param_multiple(p.switches, emission_crop_switch_params))
              /\ Len(emission_links) > 0
        THEN
            LET emission_node == NodeOf(g, emission_links[1].from)
                id == g.nid + 1
                g1 == NodesNew(g, "ShaderNodeGroup")
                g2 == UpdateNode(g1, id, LAMBDA n :
                          [n EXCEPT !.node_tree = node_groups_get("FP Texture Cropping"),
                                    !.location = <<emission_node.location[1] - 200,
                                                   emission_node.location[2] + 25>>])
                g3 == SetInput(SetInput(SetInput(SetInput(g2,
                          id, "Left", <<crop_bounds[1].R>>),
                          id, "Top", <<crop_bounds[1].G>>),
                          id, "Right", <<crop_bounds[1].B>>),
                          id, "Bottom", <<crop_bounds[1].A>>)
            IN  IF node_groups_get("FP Texture Cropping") = None
                      \/ ~HasKeys(crop_bounds, {"R", "G", "B", "A"}) THEN Raise(g2)
                ELSE IF NodeInputs(emission_node) = << >> THEN Raise(g3)
                ELSE LinksNew(g3, id, 0, emission_node.id, NodeInputs(emission_node)[1])
        ELSE g

\* diffuse-modulated emissive multiplier
post_modulate(g, p) ==
    IF TruthyBool(get_param(p.switches, "Modulate Emissive with Diffuse")) THEN
        LET diffuse_links == InputLinks(g, g.shader_node, "Diffuse")
        IN  IF Len(diffuse_links) = 0 THEN Raise(g)     \* links[0]
            ELSE LinksNew(g, diffuse_links[1].from, 0, g.shader_node, "Emission Multiplier")
    ELSE g

RECURSIVE gradient_colors(_, _, _, _)
\* the loop over the items of the "Colors" panel
gradient_colors(g, gradient_node, gmap_node, panel_items) ==
    IF panel_items = << >> THEN g
    ELSE LET item_links == InputLinks(g, gradient_node, Head(panel_items))
         IN  gradient_colors(IF Len(item_links) = 0 THEN g
                             ELSE LinksNew(g, gmap_node, 0, item_links[1].from,
                                           NodeInputs(NodeOf(g, item_links[1].from))[1]),
                             gradient_node, gmap_node, Tail(panel_items))

\* the gradient node in place of the diffuse texture node, and the gmap
\* value node: gradient_node is node g.nid + 1, gmap_node is node g.nid + 2
gradient_nodes(g, diffuse_node) ==
    UpdateNode(
        NodesNew(
            LinksNew(
                NodesRemove(
                    UpdateNode(NodesNew(g, "ShaderNodeGroup"), g.nid + 1, LAMBDA n :
                        [n EXCEPT !.node_tree = node_groups_get("FP Gradient"), !.location = <<0 - 500, 0>>]),
                    diffuse_node),
                g.nid + 1, 0, g.shader_node, NodeInputs(NodeOf(g, g.shader_node))[1]),
            "ShaderNodeValue"),
        g.nid + 2, LAMBDA n : [n EXCEPT !.location = <<0 - 1000, 0 - 120>>, !.value = <<1>>])

\* gradient sub-graph
post_gradient(g, p) ==
    IF TruthyBool(get_param(p.switches, "useGmapGradientLayers")) THEN
        IF Len(InputLinks(g, g.shader_node, "Diffuse")) = 0         \* links[0]
            THEN Raise(UpdateNode(NodesNew(g, "ShaderNodeGroup"), g.nid + 1, LAMBDA n :
                    [n EXCEPT !.node_tree = node_groups_get("FP Gradient"), !.location = <<0 - 500, 0>>]))
        ELSE IF node_groups_get("FP Gradient") = None               \* gradient_node.outputs[0]
            THEN Raise(NodesRemove(
                    UpdateNode(NodesNew(g, "ShaderNodeGroup"), g.nid + 1, LAMBDA n :
                        [n EXCEPT !.location = <<0 - 500, 0>>]),
                    InputLinks(g, g.shader_node, "Diffuse")[1].from))
        ELSE gradient_colors(
                [setup_params(gradient_nodes(g, InputLinks(g, g.shader_node, "Diffuse")[1].from),
                              p, gradient_mappings, g.nid + 1, FALSE)
                    EXCEPT !.gradient = TRUE],
                g.nid + 1, g.nid + 2, GradientColorItems)
    ELSE g

\* the block under `if shader_node.node_tree.name == "FP Material"`
default_post_processing(g, p, meta_data, options) ==
    Then(Then(Then(Then(post_swizzle(post_emissive_toggle(post_skin_color(post_options(g, options),
                                                                            meta_data), p), p),
                        LAMBDA x : post_vertex_colors(x, p)),
                   LAMBDA x : post_emission_crop(x, p)),
              LAMBDA x : post_modulate(x, p)),
         LAMBDA x : post_gradient(x, p))

\* the block under `if shader_node.node_tree.name == "FP Toon"`
toon_post_processing(g, options) ==
    [SetInput(g, g.shader_node, "Brightness", <<options.ToonBrightness>>) EXCEPT !.is_toon = TRUE]

\* a post-processing that tests the mapping table instead of the root
post_processing_by_family(g, p, meta_data, options) ==
    Then(IF g.socket_mappings = "default_mappings"
         THEN default_post_processing(g, p, meta_data, options)
         ELSE g,
         LAMBDA x : IF NodeOf(x, x.shader_node).node_tree = "FP Toon"
                    THEN toon_post_processing(x, options)
                    ELSE x)

\* everything of import_material after the vertex-crunch test
post_processing(g, p, meta_data, options) ==
    Then(IF NodeOf(g, g.shader_node).node_tree = "FP Material"
         THEN default_post_processing(g, p, meta_data, options)
         ELSE g,
         LAMBDA x : IF NodeOf(x, x.shader_node).node_tree = "FP Toon"
                    THEN toon_post_processing(x, options)
                    ELSE x)

\* links.new(shader_node.outputs[0], output_node.inputs[0])
link_output(g, output_node) ==
    IF NodeOutputs(NodeOf(g, g.shader_node)) = 0 THEN Raise(g)    \* shader_node.outputs[0]
    ELSE [LinksNew(g, g.shader_node, 0, output_node, "Surface") EXCEPT !.linked = TRUE]

\* the material with its graph cleared, the output node (node 1) and the
\* root "FP Material" (node 2)
base_graph(material, toon) ==
    [UpdateNode(
        NodesNew(
            UpdateNode(
                NodesNew([material |-> [material EXCEPT !.use_nodes = TRUE, !.blend_method = "CLIP",
                                                        !.shadow_method = "CLIP", !.nodes = << >>,
                                                        !.links = << >>],
                          nid |-> 0, shader_node |-> 0, socket_mappings |-> "default_mappings",
                          unused_parameter_offset |-> 0, events |-> << >>, error |-> FALSE,
                          crunch |-> FALSE, gradient |-> FALSE, linked |-> FALSE, is_toon |-> toon],
                         "ShaderNodeOutputMaterial"),
                1, LAMBDA n : [n EXCEPT !.location = <<200, 0>>]),
            "ShaderNodeGroup"),
        2, LAMBDA n : [n EXCEPT !.node_tree = node_groups_get("FP Material")])
     EXCEPT !.shader_node = 2]

\* setup_params(socket_mappings, shader_node, True)
setup_socket_params(g, p) == setup_params(g, p, Mappings(g.socket_mappings), g.shader_node, TRUE)

\* import_material without the `return` of the vertex-crunch branch
build_material_no_return(material, material_name, material_data, p, meta_data, options, toon) ==
    Then(Then(Then(setup_socket_params(select_family(base_graph(material, toon), p, material_data), p),
                   LAMBDA x : link_output(x, 1)),
              LAMBDA x : IF is_vertex_crunch(material_name, p) THEN vertex_crunch(x) ELSE x),
         LAMBDA x : post_processing(x, p, meta_data, options))

\* import_material from `material.use_nodes = True` on, for the material
\* object `material` and the merged lists p: the finished graph context
build_material(material, material_name, material_data, p, meta_data, options, toon) ==
    Then(Then(setup_socket_params(select_family(base_graph(material, toon), p, material_data), p),
              LAMBDA x : link_output(x, 1)),
         LAMBDA x : IF is_vertex_crunch(material_name, p) THEN vertex_crunch(x)
                    ELSE post_processing(x, p, meta_data, options))
----------------------------------------------------------------------------
(* import_material *)

\* the descriptor (a dict of the decoded request) a reference names
Descriptor(resp, ref) ==
    CASE ref.list = "Materials" -> resp.Data[ref.d].Meshes[ref.m].Materials[ref.i]
      [] ref.list = "OverrideMaterials" -> resp.Data[ref.d].Meshes[ref.m].OverrideMaterials[ref.i]
      [] ref.list = "VariantOverrideMaterials" -> resp.Data[ref.d].OverrideMaterials[ref.i]

\* the request with that descriptor replaced
WithDescriptor(resp, ref, material_data) ==
    CASE ref.list = "Materials" ->
            [resp EXCEPT !.Data[ref.d].Meshes[ref.m].Materials[ref.i] = material_data]
      [] ref.list = "OverrideMaterials" ->
            [resp EXCEPT !.Data[ref.d].Meshes[ref.m].OverrideMaterials[ref.i] = material_data]
      [] ref.list = "VariantOverrideMaterials" ->
            [resp EXCEPT !.Data[ref.d].OverrideMaterials[ref.i] = material_data]

\* a lookup that never finds the fingerprint
cache_lookup_miss(cache, material_hash) == << >>

\* `if existing := self.imported_materials.get(material_hash)`: a material object is truthy
cache_lookup(cache, material_hash) ==
    IF material_hash \in DOMAIN cache THEN <<cache[material_hash]>> ELSE << >>

\* a registration that is forgotten
register_nothing(cache, material_hash, material) == cache

\* self.imported_materials[material_hash] = material_slot.material
register(cache, material_hash, material) == (material_hash :> material) @@ cache

\* the Hash fields of the layers that enter additional_hash, in order
layer_hashes(material_data, meta_data) ==
    LET layers == TextureDataOf(meta_data) \o ApplicableOverrides(material_data, meta_data)
    IN  [i \in 1..Len(layers) |-> layers[i].Hash]

\* the slot keeps its material when the names agree up to case, else gets a new one
needs_new_material(current_name, material_name) == casefold(current_name) # casefold(material_name)

\* a hit that merges the layers into the descriptor before it returns
hit_response_merged(resp, ref, material_data, meta_data) ==
    WithDescriptor(resp, ref,
        [material_data EXCEPT !.Textures = merge_params(material_data, meta_data).textures,
                              !.Scalars = merge_params(material_data, meta_data).scalars,
                              !.Vectors = merge_params(material_data, meta_data).vectors])

\* the request after a hit: `return` (line 591) comes before the merge, the
\* descriptor keeps its lists
hit_response(resp, ref, material_data, meta_data) == resp

(* import_material(material_slot, material_data, meta_data) on the state st =  *)
(* [response, materials, slots, imported_materials, is_toon]; the slot is      *)
(* slots[key][index], the descriptor is named by ref.  The result holds the    *)
(* new state, error (an exception left the call) and the history record.       *)
import_material(st, key, index, ref, meta_data) ==
    LET material_data == Descriptor(st.response, ref)
        material_name == material_name_of(material_data, meta_data)
        material_hash == material_hash_of(material_data, meta_data)
        existing == cache_lookup(st.imported_materials, material_hash)
        current == st.slots[key][index]
        info == [d |-> ref.d, key |-> key, index |-> index, ref |-> ref, name |-> material_name,
                 hash |-> material_hash, meta_data |-> meta_data,
                 layers |-> layer_hashes(material_data, meta_data),
                 before |-> material_data, previous |-> current, toon_before |-> st.is_toon]
        created == needs_new_material(st.materials[current].name, material_name)
        materials1 == IF created
                      THEN Append(st.materials, Material(UniqueName(st.materials, material_name)))
                      ELSE st.materials
        material == IF created THEN Len(st.materials) + 1 ELSE current
        \* the cached material is assigned and the call returns
        hit == [st EXCEPT !.slots[key][index] = existing[1],
                          !.response = hit_response(st.response, ref, material_data, meta_data)]
               @@ [error |-> FALSE,
                   last |-> info @@ [hit |-> TRUE, material |-> existing[1], created |-> FALSE,
                                     params |-> ParamsOf(material_data), socket_mappings |-> None,
                                     shader_node |-> 0, events |-> << >>, crunch |-> FALSE,
                                     gradient |-> FALSE, linked |-> FALSE, error |-> FALSE,
                                     toon_after |-> st.is_toon]]
        \* the material is registered, the lists p are merged into the descriptor
        \* and the graph g is built on the material
        miss(p, g) ==
            [response |-> WithDescriptor(st.response, ref,
                              [material_data EXCEPT !.Textures = p.textures, !.Scalars = p.scalars,
                                                    !.Vectors = p.vectors]),
             materials |-> [materials1 EXCEPT ![material] = g.material],
             slots |-> [st.slots EXCEPT ![key][index] = material],
             imported_materials |-> register(st.imported_materials, material_hash, material),
             is_toon |-> g.is_toon,
             error |-> g.error,
             last |-> info @@ [hit |-> FALSE, material |-> material, created |-> created,
                               params |-> p, socket_mappings |-> g.socket_mappings,
                               shader_node |-> g.shader_node, events |-> g.events, crunch |-> g.crunch,
                               gradient |-> g.gradient, linked |-> g.linked, error |-> g.error,
                               toon_after |-> g.is_toon]]
        build(p) == miss(p, build_material(materials1[material], material_name, material_data, p,
                                           meta_data, st.response.Options, st.is_toon))
    IN  IF existing # << >> THEN hit ELSE build(merge_params(material_data, meta_data))

----------------------------------------------------------------------------
(* ImportTask.run, DataImportTask and import_model *)

CurrentData == response.Data[pc.d]
CurrentMesh == response.Data[pc.d].Meshes[pc.m]
CurrentKey == <<pc.d, pc.m>>

RECURSIVE import_mesh(_, _, _)
(* import_mesh (UEFormatImport, outside these sources): the imported object  *)
(* has one slot per material name of the mesh file.  Whether a material of   *)
(* that name already in bpy.data.materials is reused is the importer's       *)
(* choice: `reuse` is drawn both ways.                                       *)
import_mesh(mats, names, reuse) ==
    IF names = << >> THEN [materials |-> mats, slots |-> << >>]
    ELSE LET name == Head(names)
             found == FirstIndex(mats, LAMBDA x : x.name = name)
             mats1 == IF reuse /\ found # 0 THEN mats ELSE Append(mats, Material(UniqueName(mats, name)))
             id == IF reuse /\ found # 0 THEN found ELSE Len(mats1)
             rest == import_mesh(mats1, Tail(names), reuse)
         IN  [materials |-> rest.materials, slots |-> <<id>> \o rest.slots]

\* get_meta(["SkinColor"]) for a Body mesh, {} for the other mesh types
mesh_meta(data, mesh) ==
    LET with == SelectSeq(data.Meshes, LAMBDA x : "SkinColor" \in DOMAIN x.Meta)
    IN  IF mesh.Type = "Body" /\ with # << >>
        THEN [SkinColor |-> with[Len(with)].Meta.SkinColor]
        ELSE << >>

\* meta as import_model hands it to import_material
meta_of(data, mesh) ==
    mesh_meta(data, mesh)
    @@ (IF "TextureData" \in DOMAIN mesh THEN [TextureData |-> mesh.TextureData] ELSE << >>)
    @@ [OverrideParameters |-> data.OverrideParameters]

\* where(imported_mesh.material_slots, lambda slot: slot.name.casefold() == name.casefold())
slots_named(key, name) ==
    LET all == [i \in 1..Len(slots[key]) |-> i]
    IN  SelectSeq(all, LAMBDA i : casefold(materials[slots[key][i]].name) = casefold(name))

\* the state after a call of import_material with the result r
Return(r, pc1) ==
    /\ response' = r.response
    /\ materials' = r.materials
    /\ slots' = r.slots
    /\ imported_materials' = r.imported_materials
    /\ is_toon' = r.is_toon
    /\ aborted' = r.error
    /\ last' = r.last
    /\ log' = Append(log, [d |-> r.last.d, key |-> r.last.key, index |-> r.last.index,
                           base |-> [Name |-> r.last.before.Name, Hash |-> r.last.before.Hash],
                           layers |-> r.last.layers, name |-> r.last.name, hash |-> r.last.hash,
                           hit |-> r.last.hit, material |-> r.last.material])
    /\ pc' = pc1
    /\ UNCHANGED <<original, node_groups, crunch_verts_materials, scene, messages>>

\* one call of import_material from a loop of import_model
Call(index, ref, pc1) ==
    Return(import_material([response |-> response, materials |-> materials, slots |-> slots,
                            imported_materials |-> imported_materials, is_toon |-> is_toon],
                           CurrentKey, index, ref, meta_of(CurrentData, CurrentMesh)),
           pc1)

\* a run whose tasks share one cache
NextData_shared ==
    /\ ~aborted /\ pc.phase = "run" /\ pc.d < Len(response.Data)
    /\ response.Data[pc.d + 1].PrimitiveType = "Mesh"
    /\ pc' = [phase |-> "meshes", d |-> pc.d + 1, m |-> 0, i |-> 0, cur |-> 0, pending |-> << >>]
    /\ is_toon' = FALSE
    /\ crunch_verts_materials' = << >>
    /\ UNCHANGED <<response, original, node_groups, materials, slots, imported_materials, aborted,
                   scene, messages, log, last>>

\* ImportTask.run: the next DataImportTask(data, ...) up to the loop over its meshes
NextData ==
    /\ ~aborted /\ pc.phase = "run" /\ pc.d < Len(response.Data)
    /\ response.Data[pc.d + 1].PrimitiveType = "Mesh"
    /\ pc' = [phase |-> "meshes", d |-> pc.d + 1, m |-> 0, i |-> 0, cur |-> 0, pending |-> << >>]
    /\ imported_materials' = << >>
    /\ is_toon' = FALSE
    /\ crunch_verts_materials' = << >>
    /\ UNCHANGED <<response, original, node_groups, materials, slots, aborted, scene, messages, log, last>>

\* import_model up to its loop over the materials
ImportModel ==
    /\ ~aborted /\ pc.phase = "meshes" /\ pc.m < Len(CurrentData.Meshes)
    /\ \E reuse \in BOOLEAN :
         LET r == import_mesh(materials, CurrentData.Meshes[pc.m + 1].Slots, reuse)
         IN  /\ materials' = r.materials
             /\ slots' = (<<pc.d, pc.m + 1>> :> r.slots) @@ slots
    /\ pc' = [pc EXCEPT !.phase = "materials", !.m = pc.m + 1, !.i = 1]
    /\ UNCHANGED <<response, original, node_groups, imported_materials, is_toon,
                   crunch_verts_materials, aborted, scene, messages, log, last>>

\* one iteration of `for material in mesh.get("Materials")`
ImportMaterials ==
    /\ ~aborted /\ pc.phase = "materials" /\ pc.i <= Len(CurrentMesh.Materials)
    /\ LET index == CurrentMesh.Materials[pc.i].Slot
       IN  IF index >= Len(slots[CurrentKey])
           THEN /\ pc' = [pc EXCEPT !.i = pc.i + 1]
                /\ UNCHANGED <<response, original, node_groups, materials, slots, imported_materials,
                               is_toon, crunch_verts_materials, aborted, scene, messages, log, last>>
           ELSE Call(index + 1, [list |-> "Materials", d |-> pc.d, m |-> pc.m, i |-> pc.i],
                     [pc EXCEPT !.i = pc.i + 1])

MaterialsDone ==
    /\ ~aborted /\ pc.phase = "materials" /\ pc.i > Len(CurrentMesh.Materials)
    /\ pc' = [pc EXCEPT !.phase = "override_materials", !.i = 1]
    /\ UNCHANGED <<response, original, node_groups, materials, slots, imported_materials,
                   is_toon, crunch_verts_materials, aborted, scene, messages, log, last>>

\* `for override_material in mesh.get("OverrideMaterials")`: the slots of one iteration
SelectOverrideSlots ==
    /\ ~aborted /\ pc.phase = "override_materials" /\ pc.pending = << >>
    /\ pc.i <= Len(CurrentMesh.OverrideMaterials)
    /\ LET index == CurrentMesh.OverrideMaterials[pc.i].Slot
       IN  pc' = [pc EXCEPT !.i = pc.i + 1, !.cur = pc.i,
                            !.pending = IF index >= Len(slots[CurrentKey]) THEN << >>
                                        ELSE slots_named(CurrentKey, materials[slots[CurrentKey][index + 1]].name)]
    /\ UNCHANGED <<response, original, node_groups, materials, slots, imported_materials,
                   is_toon, crunch_verts_materials, aborted, scene, messages, log, last>>

\* `for slot in slots: self.import_material(slot, override_material, meta)`
ImportOverrideMaterial ==
    /\ ~aborted /\ pc.phase = "override_materials" /\ pc.pending # << >>
    /\ Call(Head(pc.pending), [list |-> "OverrideMaterials", d |-> pc.d, m |-> pc.m, i |-> pc.cur],
            [pc EXCEPT !.pending = Tail(pc.pending)])

OverrideMaterialsDone ==
    /\ ~aborted /\ pc.phase = "override_materials" /\ pc.pending = << >>
    /\ pc.i > Len(CurrentMesh.OverrideMaterials)
    /\ pc' = [pc EXCEPT !.phase = "variant_override_materials", !.i = 1]
    /\ UNCHANGED <<response, original, node_groups, materials, slots, imported_materials,
                   is_toon, crunch_verts_materials, aborted, scene, messages, log, last>>

\* `for variant_override_material in self.override_materials`: the slots of one iteration
SelectVariantSlots ==
    /\ ~aborted /\ pc.phase = "variant_override_materials" /\ pc.pending = << >>
    /\ pc.i <= Len(CurrentData.OverrideMaterials)
    /\ pc' = [pc EXCEPT !.i = pc.i + 1, !.cur = pc.i,
                        !.pending = slots_named(CurrentKey,
                                        <<CurrentData.OverrideMaterials[pc.i].MaterialNameToSwap>>)]
    /\ UNCHANGED <<response, original, node_groups, materials, slots, imported_materials,
                   is_toon, crunch_verts_materials, aborted, scene, messages, log, last>>

ImportVariantOverrideMaterial ==
    /\ ~aborted /\ pc.phase = "variant_override_materials" /\ pc.pending # << >>
    /\ Call(Head(pc.pending), [list |-> "VariantOverrideMaterials", d |-> pc.d, m |-> 0, i |-> pc.cur],
            [pc EXCEPT !.pending = Tail(pc.pending)])

RECURSIVE add_crunch_verts(_, _)
\* `for slot in material_slots: if slot.material.get("Crunch Verts"): add_unique(...)`
add_crunch_verts(target, ids) ==
    IF ids = << >> THEN target
    ELSE LET item == Head(ids)
             t1 == IF materials[item].crunch_verts /\ ~(\E i \in 1..Len(target) : target[i] = item)
                   THEN Append(target, item) ELSE target
         IN  add_crunch_verts(t1, Tail(ids))

\* the end of import_model: the vertex-crunch materials are collected
ModelDone ==
    /\ ~aborted /\ pc.phase = "variant_override_materials" /\ pc.pending = << >>
    /\ pc.i > Len(CurrentData.OverrideMaterials)
    /\ crunch_verts_materials' = add_crunch_verts(crunch_verts_materials, slots[CurrentKey])
    /\ pc' = [pc EXCEPT !.phase = "meshes", !.i = 0, !.cur = 0]
    /\ UNCHANGED <<response, original, node_groups, materials, slots, imported_materials,
                   is_toon, aborted, scene, messages, log, last>>

\* the end of import_mesh_data: back in the loop of ImportTask.run
DataDone ==
    /\ ~aborted /\ pc.phase = "meshes" /\ pc.m = Len(CurrentData.Meshes)
    /\ pc' = [pc EXCEPT !.phase = "run"]
    /\ UNCHANGED <<response, original, node_groups, materials, slots, imported_materials,
                   is_toon, crunch_verts_materials, aborted, scene, messages, log, last>>

----------------------------------------------------------------------------
(* import_anim_data.  An object of bpy.data.objects is a record with an id  *)
(* (0 is None); a path "file.name" of the request is the record of its two  *)
(* parts; times are whole seconds.                                          *)

NoArmatureMessage ==
    "An armature must be selected to import an animation. Please select an armature and try again."
TastyRigMessage ==
    "Tasty Rig currently does not support emotes. Please use a character with the Default Rig and try again."

\* the object with that id
ObjectOf(objects, id) == objects[FirstIndex(objects, LAMBDA obj : obj.id = id)]

\* armature_from_selection(): the first selected armature; without one, the
\* object of the first armature modifier of a selected mesh, the last such
\* mesh deciding (the inner `break` leaves the outer loop running)
armature_from_selection(objects) ==
    LET found == FirstIndex(objects, LAMBDA obj : obj.type = "ARMATURE" /\ obj.selected)
        armature_modifier(obj) == FirstIndex(obj.modifiers, LAMBDA modifier : modifier.type = "ARMATURE")
        meshes == {i \in 1..Len(objects) :
                      objects[i].type = "MESH" /\ objects[i].selected /\ armature_modifier(objects[i]) # 0}
        mesh == objects[CHOOSE i \in meshes : \A j \in meshes : j <= i]
    IN  IF found # 0 THEN objects[found].id
        ELSE IF meshes = {} THEN 0
        ELSE mesh.modifiers[armature_modifier(mesh)].object

\* time_to_frame(time, fps): int(round(time * fps))
time_to_frame(time, fps) == time * fps

RECURSIVE total_frames(_)
\* import_sections: total_frames += time_to_frame(section.get("Length"))
total_frames(sections) ==
    IF sections = << >> THEN 0
    ELSE time_to_frame(Head(sections).Length, 30) + total_frames(Tail(sections))

\* import_sections: the track "Sections" with one strip per section
sections_track(sections) ==
    [name |-> "Sections",
     strips |-> [i \in 1..Len(sections) |->
                    [name |-> sections[i].Name, start |-> time_to_frame(sections[i].Time, 30),
                     action |-> sections[i].Path.name]]]

\* the attributes of the object `id` replaced
SetObject(sc, id, object) ==
    [sc EXCEPT !.objects = [i \in 1..Len(sc.objects) |->
                               IF sc.objects[i].id = id THEN object ELSE sc.objects[i]]]

\* an object as import_model returns it for a mesh without materials
ImportedObject(id, name, type, parent, selected) ==
    [id |-> id, name |-> name, type |-> type, selected |-> selected, is_tasty_rig |-> FALSE,
     modifiers |-> << >>, animation_data |-> << >>, parent |-> parent, hidden |-> FALSE,
     constraint |-> << >>]

RECURSIVE import_props(_, _, _, _)
\* `for prop in props`: the prop's mesh imported, constrained to the socket
\* of the master skeleton and animated by its AnimSections
import_props(sc, props, master_skeleton, selected) ==
    IF props = << >> THEN sc
    ELSE LET prop == Head(props)
             id == sc.next_id
             anims == Get(prop, "AnimSections")
             mesh == [ImportedObject(id, prop.Mesh.Name, "MESH", 0, selected) EXCEPT
                         !.constraint = <<[target |-> master_skeleton, subtarget |-> prop.SocketName]>>,
                         !.animation_data = IF anims # << >> /\ Len(anims[1]) > 0
                                            THEN <<[nla_tracks |-> <<sections_track(anims[1])>>]>>
                                            ELSE << >>]
         IN  import_props([sc EXCEPT !.objects = Append(sc.objects, mesh), !.next_id = id + 1],
                          Tail(props), master_skeleton, selected)

\* the block under `if len(props) > 0`: a Master_Skeleton child of the target
\* is removed, the skeleton is imported in its place, animated and hidden,
\* and the props are attached to it
import_anim_props(sc, data, target_skeleton, selected) ==
    LET id == sc.next_id
        kept == SelectSeq(sc.objects, LAMBDA obj :
                    obj.id # (LET child == FirstIndex(sc.objects, LAMBDA x :
                                                x.parent = target_skeleton /\ x.name = "Master_Skeleton")
                              IN  IF child = 0 THEN 0 ELSE sc.objects[child].id))
        master_skeleton ==
            [ImportedObject(id, "Master_Skeleton", "ARMATURE", target_skeleton, selected) EXCEPT
                !.animation_data = <<[nla_tracks |-> <<sections_track(data.Sections)>>]>>,
                !.hidden = TRUE]
    IN  IF Len(data.Props) > 0
        THEN import_props([sc EXCEPT !.objects = Append(kept, master_skeleton), !.next_id = id + 1],
                          data.Props, id, selected)
        ELSE sc

RECURSIVE import_sounds(_, _)
\* `for sound in data.get("Sounds")`: import_sound adds a sequence marked
\* FPSound unless a sound of that name is loaded already
import_sounds(sc, sounds) ==
    IF sounds = << >> THEN sc
    ELSE LET sound == Head(sounds)
         IN  import_sounds(
                IF sound.Path.name \in sc.sounds THEN sc
                ELSE [sc EXCEPT !.sequence_editor = TRUE,
                                !.sounds = sc.sounds \cup {sound.Path.name},
                                !.sequences = Append(sc.sequences,
                                    [name |-> sound.Path.name, frame_start |-> time_to_frame(sound.Time, 30),
                                     FPSound |-> TRUE])],
                Tail(sounds))

\* import_anim_data from `# clear old data` on, for the armature target_skeleton
import_anim_target(sc, data, options, target_skeleton, selected) ==
    LET target == ObjectOf(sc.objects, target_skeleton)
        cleared == SetObject(sc, target_skeleton, [target EXCEPT !.animation_data = << >>])
        removed == [cleared EXCEPT !.sequences = SelectSeq(cleared.sequences, LAMBDA seq : ~seq.FPSound)]
        created == SetObject(removed, target_skeleton,
                       [target EXCEPT !.animation_data = <<[nla_tracks |-> <<sections_track(data.Sections)>>]>>])
        timed == IF TruthyBool(Get(options, "UpdateTimelineLength"))
                 THEN [created EXCEPT !.frame_end = total_frames(data.Sections)]
                 ELSE created
        props == import_anim_props(timed, data, target_skeleton, selected)
    IN  IF sc.sequence_editor /\ \E i \in 1..Len(sc.sequences) : "FPSound" \notin DOMAIN sc.sequences[i]
        THEN [scene |-> cleared, error |-> TRUE]                  \* seq["FPSound"] raises KeyError
        ELSE [scene |-> IF TruthyBool(Get(options, "ImportSounds"))
                        THEN import_sounds(props, data.Sounds) ELSE props,
              error |-> FALSE]

\* an import_anim_data that clears the old data before it looks at the rig
import_anim_data_eager(sc, msgs, data, options, selected) ==
    LET target_skeleton == armature_from_selection(sc.objects)
    IN  IF target_skeleton = 0
        THEN [scene |-> sc, messages |-> Append(msgs, NoArmatureMessage), error |-> FALSE]
        ELSE IF ObjectOf(sc.objects, target_skeleton).is_tasty_rig
        THEN [scene |-> SetObject(sc, target_skeleton,
                            [ObjectOf(sc.objects, target_skeleton) EXCEPT !.animation_data = << >>]),
              messages |-> Append(msgs, TastyRigMessage), error |-> FALSE]
        ELSE [messages |-> msgs] @@ import_anim_target(sc, data, options, target_skeleton, selected)

\* import_anim_data(data): the scene and the messages after the call
import_anim_data(sc, msgs, data, options, selected) ==
    LET target_skeleton == armature_from_selection(sc.objects)
    IN  IF target_skeleton = 0
        THEN [scene |-> sc, messages |-> Append(msgs, NoArmatureMessage), error |-> FALSE]
        ELSE IF ObjectOf(sc.objects, target_skeleton).is_tasty_rig
        THEN [scene |-> sc, messages |-> Append(msgs, TastyRigMessage), error |-> FALSE]
        ELSE [messages |-> msgs] @@ import_anim_target(sc, data, options, target_skeleton, selected)

\* ImportTask.run: the next DataImportTask(data, ...) for a Data item of
\* primitive type Animation.  Whether the importer leaves the objects it
\* creates selected is its choice: `selected` is drawn both ways.
ImportAnimData ==
    /\ ~aborted /\ pc.phase = "run" /\ pc.d < Len(response.Data)
    /\ response.Data[pc.d + 1].PrimitiveType = "Animation"
    /\ \E selected \in BOOLEAN :
         LET r == import_anim_data(scene, messages, response.Data[pc.d + 1], response.Options, selected)
         IN  /\ scene' = r.scene
             /\ messages' = r.messages
             /\ aborted' = r.error
    /\ pc' = [pc EXCEPT !.d = pc.d + 1]
    /\ imported_materials' = << >>
    /\ is_toon' = FALSE
    /\ crunch_verts_materials' = << >>
    /\ UNCHANGED <<response, original, node_groups, materials, slots, log, last>>

Next ==
    \/ NextData
    \/ ImportAnimData
    \/ ImportModel
    \/ ImportMaterials
    \/ MaterialsDone
    \/ SelectOverrideSlots
    \/ ImportOverrideMaterial
    \/ OverrideMaterialsDone
    \/ SelectVariantSlots
    \/ ImportVariantOverrideMaterial
    \/ ModelDone
    \/ DataDone

----------------------------------------------------------------------------
(* The requests the model is run on.  A request is what ImportTask.run      *)
(* receives: Options and a list of Data items, each with its meshes, their  *)
(* materials and the override layers.  `Slots` of a mesh lists the material *)
(* names of the mesh file, from which import_mesh makes the slots.          *)

\* bounds of the model: the largest layer hash, the longest parameter list of
\* a layer and the number of Data items of a request
MaxHash == 2
MaxTextures == 2
MaxData == 2
MaxSwitches == 2
MaxBase == 3

\* sequences over S of length at most n
SeqUpTo(S, n) == UNION {[1..k -> S] : k \in 0..n}

UniqueNames(list) == \A i, j \in 1..Len(list) : i # j => list[i].Name # list[j].Name

Texture(name, value) == [Name |-> name, Value |-> value, sRGB |-> TRUE]
Parameter(name, value) == [Name |-> name, Value |-> value]
Color(r, g, b, a) == [R |-> r, G |-> g, B |-> b, A |-> a]

Options == [AmbientOcclusion |-> 1, Cavity |-> 1, Subsurface |-> 1, ToonBrightness |-> 2]

\* a material descriptor: the fields of `fields` over an empty descriptor
MaterialData(name, hash, slot, fields) ==
    fields @@ [Name |-> name, Hash |-> hash, Slot |-> slot]
           @@ [Textures |-> << >>, Scalars |-> << >>, Vectors |-> << >>, Switches |-> << >>,
               ComponentMasks |-> << >>]

\* a mesh: the fields of `fields` over a mesh without materials
Mesh(names, fields) ==
    fields @@ [Type |-> "Prop", Slots |-> names, Materials |-> << >>, OverrideMaterials |-> << >>,
               Meta |-> << >>]

\* a Data item of primitive type Mesh
Data(meshes, fields) ==
    fields @@ [PrimitiveType |-> "Mesh", Type |-> "Prop", Meshes |-> meshes,
               OverrideMaterials |-> << >>, OverrideParameters |-> << >>]

Request(datas) == [Options |-> Options, Data |-> datas]

\* a request on the node groups append_data() loads from the library file
World(datas) == [response |-> Request(datas), node_groups |-> TemplateInputs]

\* one Data item, one mesh with the slot "Skin", one material
Single(material_data, mesh_fields, data_fields) ==
    World(<<Data(<<Mesh(<<<<"Skin">>>>, mesh_fields @@ [Materials |-> <<material_data>>])>>, data_fields)>>)

(* Family worlds: every combination of the feature predicates. *)
FamilyWorlds ==
    {Single(MaterialData("Skin", 10, 0,
                (IF valet THEN [AbsoluteParent |-> "M_FN_Valet_Master"] ELSE [AbsoluteParent |-> "M_Base"])
                @@ [UseGlassMaterial |-> glass, UseFoliageMaterial |-> foliage,
                    Textures |-> <<Texture("Diffuse", "/T/A.A")>>
                                 \o (IF extra THEN <<Texture("Diffuse_Texture_2", "/T/B.B")>> ELSE << >>)
                                 \o (IF toon THEN <<Texture("LitDiffuse", "/T/C.C")>> ELSE << >>)
                                 \o <<Texture("Trunk_BaseColor", "/T/B.B")>>,
                    Scalars |-> <<Parameter("Roughness", 1), Parameter("emissive mult", 2)>>,
                    Switches |-> (IF layers THEN <<Parameter("Use 2 Layers", TRUE)>> ELSE << >>)
                                 \o (IF trunk = "absent" THEN << >>
                                     ELSE <<Parameter("IsTrunk", trunk = "true")>>)]),
            << >>, << >>) :
        layers \in BOOLEAN, extra \in BOOLEAN, toon \in BOOLEAN, valet \in BOOLEAN,
        glass \in BOOLEAN, foliage \in BOOLEAN, trunk \in {"absent", "true", "false"}}

(* Cache worlds: up to MaxData equal Data items.  Mesh A has three slots,   *)
(* two of them resolved by descriptors of hash hA and hB, a descriptor for  *)
(* a slot the mesh does not have, and an override material whose name may   *)
(* be that of the slot's material, up to case; mesh B has one slot and      *)
(* other TextureData.  A variant override material of the Data     *)
(* item swaps the material "Skin" of both meshes.                           *)
TextureDataA == <<[Hash |-> 1, Diffuse |-> Texture("Diffuse", "/T/B.B")]>>
TextureDataB == <<[Hash |-> 2, Normal |-> Texture("Normals", "/T/C.C")]>>

CacheData(hA, hB, nO, hO, withA) ==
    Data(<<Mesh(<<<<"Skin">>, <<"Bark">>, <<"Glow">>>>,
                (IF withA THEN [TextureData |-> TextureDataA] ELSE << >>)
                @@ [Materials |-> <<MaterialData("Bark", hA, 1, [Scalars |-> <<Parameter("Roughness", 1)>>]),
                                    MaterialData("Bark", hB, 2, [Scalars |-> <<Parameter("Roughness", 1)>>]),
                                    MaterialData("Glow", 12, 7, << >>)>>,
                    OverrideMaterials |-> <<MaterialData(nO, hO, 1, << >>),
                                            MaterialData("Glow", 13, 9, << >>)>>]),
           Mesh(<<<<"Skin">>>>, [TextureData |-> TextureDataB])>>,
         [OverrideMaterials |-> <<MaterialData("Variant", 20, 0,
                                      [MaterialNameToSwap |-> "Skin",
                                       Textures |-> <<Texture("SpecularMasks", "/T/A.A")>>])>>])

CacheWorlds ==
    {World([d \in 1..n |-> CacheData(hA, hB, nO, hO, withA)]) :
        hA \in {10, 11}, hB \in {10, 11}, nO \in {"Glow", "Bark", "BARK"}, hO \in {10, 12},
        withA \in BOOLEAN, n \in 1..MaxData}

(* Merge worlds: a base texture list with unique names and up to two        *)
(* applicable override layers, each a list of at most MaxTextures textures, *)
(* after one TextureData entry or none.                                     *)
OverrideLayer(name, hash, textures, scalars) ==
    [MaterialNameToAlter |-> name, Hash |-> hash, Textures |-> textures, Scalars |-> scalars,
     Vectors |-> << >>]

MergeWorlds ==
    LET LayerLists(value) ==
            SeqUpTo({Texture("Diffuse", value), Texture("SpecularMasks", value)}, MaxTextures)
    IN  {Single(MaterialData("Skin", 10, 0, [Textures |-> base, Scalars |-> <<Parameter("Roughness", 1)>>]),
                IF td THEN [TextureData |-> TextureDataB] ELSE << >>,
                [OverrideParameters |-> layers]) :
            base \in {list \in SeqUpTo({Texture("Diffuse", "/T/A.A"), Texture("Normals", "/T/A.A")}, 2) :
                        UniqueNames(list)}, td \in BOOLEAN,
            layers \in {<< >>}
                       \cup {<<OverrideLayer("Skin", 1, l1, <<Parameter("Roughness", 2)>>)>> :
                                l1 \in LayerLists("/T/B.B")}
                       \cup {<<OverrideLayer("Skin", 1, l1, <<Parameter("Custom", 2)>>),
                               OverrideLayer("Bark", 5, <<Texture("Normals", "/T/C.C")>>, << >>),
                               OverrideLayer("Skin", 2, l2, <<Parameter("Custom", 3)>>)>> :
                                l1 \in LayerLists("/T/B.B"), l2 \in LayerLists("/T/C.C")}}

(* Hash worlds: the same descriptor resolved on two meshes, the second with *)
(* one more applicable layer (a TextureData entry or an OverrideParameters  *)
(* set) than the first.  Hashes range over -MaxHash..MaxHash.  And one      *)
(* descriptor with two TextureData entries and two sets, one of them for    *)
(* another material, whose hashes are large, of both signs, and may cancel; *)
(* the layers carry textures, a scalar, and switches and component masks.   *)
HashWorlds ==
    {World(<<Data(<<Mesh(<<<<"Skin">>>>,
                         [TextureData |-> [i \in 1..Len(td) |-> [Hash |-> td[i]]],
                          Materials |-> <<MaterialData("Skin", 10, 0, << >>)>>]),
                    Mesh(<<<<"Skin">>>>,
                         [TextureData |-> [i \in 1..Len(td) |-> [Hash |-> td[i]]] \o <<[Hash |-> extra]>>,
                          Materials |-> <<MaterialData("Skin", 10, 0, << >>)>>])>>,
                  << >>)>>) :
        td \in SeqUpTo((0 - MaxHash)..MaxHash, 1), extra \in (0 - MaxHash)..MaxHash}
    \cup
    {World([d \in 1..2 |->
              Data(<<Mesh(<<<<"Skin">>>>,
                          [TextureData |-> [i \in 1..Len(td) |-> [Hash |-> td[i]]],
                           Materials |-> <<MaterialData("Skin", 10, 0, << >>)>>])>>,
                   [OverrideParameters |-> IF d = 1 THEN <<OverrideLayer("Bark", 1, << >>, << >>)>>
                                           ELSE <<OverrideLayer("Bark", 1, << >>, << >>),
                                                  OverrideLayer("Skin", extra, << >>, << >>)>>])]) :
        td \in SeqUpTo((0 - MaxHash)..MaxHash, 1), extra \in (0 - MaxHash)..MaxHash}
    \cup
    {Single(MaterialData("Skin", 10, 0,
                [Textures |-> <<Texture("Diffuse", "/T/A.A")>>,
                 Switches |-> <<Parameter("Use 2 Layers", TRUE), Parameter("IsTrunk", FALSE)>>,
                 ComponentMasks |-> <<Parameter("CustomMask", Color(0, 1, 0, 0))>>]),
            [TextureData |-> <<[Hash |-> a, Specular |-> Texture("SpecularMasks", "/T/B.B"),
                                Normal |-> Texture("Normals", "/T/B.B"),
                                Diffuse |-> Texture("D", "/T/B.B")],
                               [Hash |-> b, Diffuse |-> Texture("Diffuse", "/T/B.B")]>>],
            [OverrideParameters |->
                <<OverrideLayer("Bark", 7, <<Texture("LitDiffuse", "/T/C.C")>>, << >>),
                  OverrideLayer("Skin", c, <<Texture("Diffuse", "/T/C.C"),
                                             Texture("Diffuse_Texture_2", "/T/C.C")>>,
                                <<Parameter("Custom", 2)>>)
                  @@ [Switches |-> <<Parameter("IsTrunk", TRUE), Parameter("Use 2 Layers", FALSE)>>,
                      ComponentMasks |-> <<Parameter("CustomMask", Color(1, 0, 0, 0))>>]>>]) :
        a \in {0 - 4096, 16}, b \in {0 - 16, 255}, c \in {0 - 255, 0, 11}}

(* Failure worlds: parameters of every kind, mapped and unmapped, some of   *)
(* which cannot be resolved: a texture whose file is missing, a scalar      *)
(* without a value, a vector without its components.                        *)
FailureWorlds ==
    {Single(MaterialData("Skin", 10, 0,
                [Textures |-> <<Texture("Diffuse", mapped_path), Texture("CustomTexture", unmapped_path),
                                Texture("Normals", "/T/B.B"), Texture("CustomTexture2", "/T/C.C")>>,
                 Scalars |-> <<IF scalar_value THEN Parameter("CustomGlow", 5) ELSE [Name |-> "CustomGlow"],
                               Parameter("CustomGlow2", 6),
                               IF scalar_value THEN [Name |-> "Roughness"] ELSE Parameter("Roughness", 1)>>,
                 Vectors |-> <<Parameter("CustomVector",
                                         IF vector_value THEN Color(1, 2, 3, 4) ELSE [R |-> 1, G |-> 2])>>,
                 ComponentMasks |-> <<Parameter("CustomMask", Color(0, 1, 0, 0))>>,
                 Switches |-> <<Parameter("CustomSwitch", TRUE), Parameter("SwizzleRoughnessToGreen", switch)>>]),
            << >>, << >>) :
        mapped_path \in {"/T/A.A", "/T/X.X"}, unmapped_path \in {"/T/A.A", "/T/X.X"},
        scalar_value \in BOOLEAN, vector_value \in BOOLEAN, switch \in BOOLEAN}

(* Crunch worlds: the vertex-crunch sentinels and the HT_CrunchVerts scalar *)
(* on descriptors whose parameters call for post-processing, of the         *)
(* default, toon, trunk and foliage family.                                 *)
CrunchWorlds ==
    {Single(MaterialData(name, 10, 0,
                [UseFoliageMaterial |-> family = "foliage",
                 Textures |-> <<Texture("Diffuse", "/T/A.A")>>
                              \o (IF family = "toon" THEN <<Texture("LitDiffuse", "/T/C.C")>> ELSE << >>)
                              \o (IF family = "trunk" THEN <<Texture("Trunk_BaseColor", "/T/B.B")>>
                                  ELSE << >>),
                 Scalars |-> IF crunch = "absent" THEN << >>
                             ELSE <<Parameter("HT_CrunchVerts", IF crunch = "one" THEN 1 ELSE 0)>>,
                 Switches |-> (IF family = "trunk" THEN <<Parameter("IsTrunk", TRUE)>> ELSE << >>)
                              \o (IF fixups
                                  THEN <<Parameter("Emissive", FALSE),
                                         Parameter("useGmapGradientLayers", TRUE),
                                         Parameter("Use Vertex Colors for Mask", TRUE)>>
                                  ELSE << >>)]),
            (IF layer THEN [TextureData |-> TextureDataA] ELSE << >>)
            @@ [Slots |-> <<<<name>>>>, Type |-> "Body",
                Meta |-> [SkinColor |-> Color(1, 1, 1, 1)]],
            << >>) :
        name \in {"MI_VertexCrunch", "M_VertexCrunch", "Skin"}, crunch \in {"absent", "one", "zero"},
        family \in {"default", "toon", "trunk", "foliage"}, fixups \in BOOLEAN, layer \in BOOLEAN}

(* Gradient worlds: a default-family material with the switch               *)
(* useGmapGradientLayers and, next to the Diffuse texture, parameters of    *)
(* every kind, some with a rule in gradient_mappings and some without.      *)
GradientWorlds ==
    {Single(MaterialData("Skin", 10, 0,
                [Textures |-> <<Texture("Diffuse", "/T/A.A")>> \o extra,
                 Scalars |-> <<Parameter("Roughness", 1)>>,
                 Vectors |-> <<Parameter("CustomVector", Color(1, 2, 3, 4))>>,
                 ComponentMasks |-> <<Parameter("GmapSkinCustomization_Channel", Color(0, 1, 0, 0)),
                                      Parameter("CustomMask", Color(1, 0, 0, 0))>>,
                 Switches |-> <<Parameter("useGmapGradientLayers", gradient),
                                Parameter("use Alpha Channel as mask", TRUE),
                                Parameter("CustomSwitch", TRUE)>>]),
            << >>, << >>) :
        gradient \in BOOLEAN,
        extra \in {<< >>, <<Texture("Normals", "/T/B.B")>>, <<Texture("Normals", "/T/X.X")>>,
                   <<Texture("Layer Mask", "/T/B.B"), Texture("CustomTexture", "/T/C.C")>>}}

(* Fatal worlds: requests of two Data items run against a template library  *)
(* that lacks one node group, and materials whose post-processing reads a   *)
(* link that is not there.  Every material named here is followed by more   *)
(* materials, meshes and Data items.                                        *)

\* the library without the node group `missing` ("" for the whole library)
LibraryWithout(missing) == [t \in Templates \ {missing} |-> TemplateInputs[t]]

\* a material that calls for one step of the build
FixupMaterial(step) ==
    MaterialData("Skin", 10, 0,
        CASE step = "vertex" -> [Switches |-> <<Parameter("Use Vertex Colors for Mask", TRUE)>>]
          [] step = "gradient" ->
                [Textures |-> <<Texture("Diffuse", "/T/A.A")>>,
                 Switches |-> <<Parameter("useGmapGradientLayers", TRUE)>>]
          [] step = "gradient_unlinked" -> [Switches |-> <<Parameter("useGmapGradientLayers", TRUE)>>]
          [] step = "modulate_unlinked" ->
                [Switches |-> <<Parameter("Modulate Emissive with Diffuse", TRUE)>>]
          [] step = "modulate_gradient_unlinked" ->
                [Switches |-> <<Parameter("Modulate Emissive with Diffuse", TRUE),
                                Parameter("useGmapGradientLayers", TRUE)>>]
          [] step = "crop" ->
                [Textures |-> <<Texture("Emissive", "/T/A.A")>>,
                 Vectors |-> <<Parameter("EmissiveUVs_RG_UpperLeftCorner_BA_LowerRightCorner",
                                         Color(0, 0, 1, 1))>>,
                 Switches |-> <<Parameter("CroppedEmissive", TRUE)>>]
          [] step = "switch" -> [Switches |-> <<Parameter("CustomSwitch", TRUE)>>]
          [] step = "toon" -> [Textures |-> <<Texture("LitDiffuse", "/T/A.A")>>]
          [] step = "glass" -> [UseGlassMaterial |-> TRUE])

\* a Data item whose first material calls for `step`
FixupData(step) ==
    Data(<<Mesh(<<<<"Skin">>, <<"Bark">>>>,
                [Materials |-> <<FixupMaterial(step),
                                 MaterialData("Bark", 11, 1, [Scalars |-> <<Parameter("Roughness", 1)>>])>>]),
           Mesh(<<<<"Glow">>>>, [Materials |-> <<MaterialData("Glow", 12, 0, << >>)>>])>>,
         << >>)

FatalWorlds ==
    {[response |-> Request(<<CacheData(10, 10, "Glow", 12, TRUE), CacheData(10, 11, "Glow", 12, FALSE)>>),
      node_groups |-> LibraryWithout(missing)] : missing \in Templates}
    \cup
    {[response |-> Request(<<FixupData(step), FixupData(step)>>),
      node_groups |-> LibraryWithout(missing)] : step \in {"vertex", "gradient", "gradient_unlinked", "modulate_unlinked",
                                                  "modulate_gradient_unlinked", "crop", "switch", "toon",
                                                  "glass"},
        missing \in Templates \cup {""}}

(* Wiring worlds: up to MaxTextures textures with a rule, several of them   *)
(* for one input of the root, one with an alpha slot and one whose file is  *)
(* missing, on a default and on a trunk material.                           *)
WiringWorlds ==
    {Single(MaterialData("Skin", 10, 0,
                [Textures |-> textures,
                 Switches |-> IF trunk THEN <<Parameter("IsTrunk", TRUE)>> ELSE << >>]),
            << >>, << >>) :
        textures \in SeqUpTo({Texture("Diffuse", "/T/A.A"), Texture("D", "/T/B.B"),
                              Texture("Background Diffuse", "/T/A.A"),
                              Texture("Trunk_BaseColor", "/T/C.C"), Texture("Trunk_BaseColor", "/T/X.X")},
                             MaxTextures),
        trunk \in BOOLEAN}

(* Animation worlds: scenes with and without a usable armature, requests     *)
(* with Data items of primitive type Animation.                              *)

\* a scene object
Object(id, name, type, selected, fields) ==
    fields @@ [id |-> id, name |-> name, type |-> type, selected |-> selected, is_tasty_rig |-> FALSE,
               modifiers |-> << >>, animation_data |-> << >>, parent |-> 0, hidden |-> FALSE,
               constraint |-> << >>]

\* animation data as an earlier import left it
OldAnimation == <<[nla_tracks |-> <<[name |-> "Sections", strips |-> << >>]>>]>>

\* bpy.data.objects of the scenes of the model.  Armature: an armature with
\* old animation data and an old Master_Skeleton child.  Skinned: a selected
\* mesh whose armature modifier refers to `object` (0: to nothing).
SceneObjects ==
    LET Armature(selected, tasty) ==
            <<Object(1, "Rig", "ARMATURE", selected,
                     [is_tasty_rig |-> tasty, animation_data |-> OldAnimation]),
              Object(2, "Master_Skeleton", "ARMATURE", FALSE, [parent |-> 1])>>
        Skinned(id, object) ==
            Object(id, "Body", "MESH", TRUE,
                   [modifiers |-> <<[type |-> "SUBSURF", object |-> 0],
                                    [type |-> "ARMATURE", object |-> object],
                                    [type |-> "ARMATURE", object |-> 0]>>])
    IN  {<< >>, <<Object(1, "Cube", "MESH", TRUE, << >>)>>}
            \cup {Armature(selected, tasty) : selected, tasty \in BOOLEAN}
            \cup {Armature(FALSE, tasty) \o <<Skinned(3, object)>> : tasty \in BOOLEAN, object \in {0, 1}}
            \cup {Armature(FALSE, FALSE) \o <<Skinned(3, 1), Skinned(4, 0)>>,
                  Armature(FALSE, FALSE) \o <<Skinned(3, 0), Skinned(4, 1)>>}

\* the sequences of the sequence editor: a sound of an earlier import and a
\* strip of the user's
OldSequences ==
    <<[name |-> "Emote", frame_start |-> 0, FPSound |-> TRUE],
      [name |-> "Music", frame_start |-> 0, FPSound |-> FALSE]>>

\* the scene before the run
Scene(objects, sequences) ==
    [objects |-> objects, next_id |-> Len(objects) + 1, sequence_editor |-> sequences # << >>,
     sequences |-> sequences, frame_end |-> 250, sounds |-> {}]

\* the scene of a world, empty where the world names none
SceneOf(w) == IF "scene" \in DOMAIN w THEN w.scene ELSE Scene(<< >>, << >>)

\* a Data item of primitive type Animation
AnimData(props) ==
    LET Section(name, time, length) ==
            [Name |-> name, Time |-> time, Length |-> length, Path |-> [file |-> "/A/Emote", name |-> name]]
    IN  [PrimitiveType |-> "Animation", Name |-> "Emote",
         Skeleton |-> [Name |-> "Skeleton"],
         Sections |-> <<Section("Intro", 0, 1), Section("Loop", 1, 2)>>,
         Props |-> [i \in 1..Len(props) |->
                       IF "AnimSections" \in DOMAIN props[i]
                       THEN [props[i] EXCEPT !.AnimSections = <<Section("Strum", 0, 1)>>]
                       ELSE props[i]],
         Sounds |-> <<[Path |-> [file |-> "/S/Emote", name |-> "Emote"], Time |-> 1],
                      [Path |-> [file |-> "/S/Emote", name |-> "Emote"], Time |-> 2]>>]

\* the requests with animations, over the scenes with the given sequences:
\* without props or with a guitar that has sections of its own and a pick,
\* alone, before another animation, or before a mesh item
AnimWorldsOf(sequences) ==
    {[response |-> [Options |-> [UpdateTimelineLength |-> update, ImportSounds |-> sounds] @@ Options,
                    Data |-> <<AnimData(props)>> \o rest],
      node_groups |-> TemplateInputs,
      scene |-> Scene(objects, sequence)] :
        update \in BOOLEAN, sounds \in BOOLEAN,
        props \in {<< >>,
                   <<[Mesh |-> [Name |-> "Guitar"], SocketName |-> "hand_r", AnimSections |-> << >>],
                     [Mesh |-> [Name |-> "Pick"], SocketName |-> "hand_l"]>>},
        rest \in {<< >>, <<AnimData(<< >>)>>,
                  <<Data(<<Mesh(<<<<"Skin">>>>, [Materials |-> <<MaterialData("Skin", 10, 0, << >>)>>])>>,
                         << >>)>>},
        objects \in SceneObjects, sequence \in sequences}

(* Layer worlds: up to MaxSwitches of the listed layer switches, on and off, *)
(* in every order, with and without an extra per-layer texture before or     *)
(* after the base texture.                                                   *)
LayerWorlds ==
    {Single(MaterialData("Skin", 10, 0, [Switches |-> switches, Textures |-> textures]), << >>, << >>) :
        switches \in SeqUpTo({Parameter(name, value) :
                                 name \in {"Use 2 Layers", "Use 3 Materials"}, value \in BOOLEAN},
                             MaxSwitches),
        textures \in {<<Texture("Diffuse", "/T/A.A")>>,
                      <<Texture("Diffuse", "/T/A.A"), Texture("Diffuse_Texture_2", "/T/B.B")>>,
                      <<Texture("SpecularMasks_3", "/T/B.B"), Texture("Diffuse", "/T/A.A"),
                        Texture("Diffuse_Texture_2", "/T/C.C")>>}}

(* Duplicate worlds: base lists of up to MaxBase textures in which a name    *)
(* may occur several times, with different values, merged with one layer of  *)
(* one texture and one scalar, or with two layers.                           *)
DuplicateWorlds ==
    {Single(MaterialData("Skin", 10, 0,
                [Textures |-> base,
                 Scalars |-> <<Parameter("Roughness", 1), Parameter("Cavity", 1), Parameter("Roughness", 2)>>]),
            << >>, [OverrideParameters |-> layers]) :
        base \in SeqUpTo({Texture("Diffuse", "/T/A.A"), Texture("Diffuse", "/T/B.B"),
                          Texture("Normals", "/T/A.A")}, MaxBase),
        layers \in {<<OverrideLayer("Skin", 1, <<texture>>, <<scalar>>)>> :
                       texture \in {Texture("Diffuse", "/T/C.C"), Texture("SpecularMasks", "/T/C.C")},
                       scalar \in {Parameter("Roughness", 3), Parameter("Custom", 3)}}
                   \cup
                   {<<OverrideLayer("Skin", 1, <<Texture("SpecularMasks", "/T/B.B"), second>>, << >>),
                      OverrideLayer("Skin", 2, <<Texture("SpecularMasks", "/T/C.C")>>, << >>)>> :
                       second \in {Texture("Normals", "/T/C.C"), Texture("SpecularMasks", "/T/A.A")}}}

(* Emissive worlds: up to MaxSwitches switches, emissive toggles and another *)
(* one, on and off, in every order, with and without the scalar that has a   *)
(* rule for the Emission Strength input.                                     *)
EmissiveWorlds ==
    {Single(MaterialData("Skin", 10, 0,
                [Textures |-> <<Texture("Diffuse", "/T/A.A")>>,
                 Scalars |-> IF mult THEN <<Parameter("emissive mult", 2)>> ELSE << >>,
                 Switches |-> switches]), << >>, << >>) :
        switches \in SeqUpTo({Parameter(name, value) :
                                 name \in {"Emissive", "Use Emissive", "Cast Shadows"},
                                 value \in BOOLEAN},
                             MaxSwitches),
        mult \in BOOLEAN}

(* Malformed worlds: layers with entries that have no name, before and      *)
(* after well-formed entries, in a TextureData entry and in applicable      *)
(* OverrideParameters sets.                                                  *)
MalformedWorlds ==
    {Single(MaterialData("Skin", 10, 0,
                [Textures |-> <<Texture("Diffuse", "/T/A.A")>>,
                 Scalars |-> <<Parameter("Roughness", 1)>>]),
            IF td THEN [TextureData |-> <<[Hash |-> 1, Diffuse |-> [Value |-> "/T/B.B", sRGB |-> TRUE],
                                           Specular |-> Texture("SpecularMasks", "/T/B.B")]>>]
            ELSE << >>,
            [OverrideParameters |->
                <<OverrideLayer("Skin", 2, textures, scalars),
                  OverrideLayer("Skin", 3, <<Texture("Normals", "/T/C.C")>>, <<Parameter("Custom", 4)>>)>>]) :
        td \in BOOLEAN,
        textures \in SeqUpTo({[Value |-> "/T/C.C", sRGB |-> TRUE], Texture("Diffuse", "/T/B.B")}, MaxTextures),
        scalars \in SeqUpTo({[Value |-> 3], Parameter("Roughness", 2)}, 1)}

\* the requests of the model
Worlds ==
    FamilyWorlds \cup CacheWorlds \cup MergeWorlds \cup HashWorlds \cup FailureWorlds \cup CrunchWorlds
        \cup GradientWorlds \cup WiringWorlds \cup AnimWorldsOf({<< >>, OldSequences}) \cup LayerWorlds \cup DuplicateWorlds
        \cup EmissiveWorlds

Init ==
    /\ \E w \in Worlds : response = w.response /\ node_groups = w.node_groups /\ scene = SceneOf(w)
    /\ messages = << >>
    /\ original = response
    /\ materials = << >>
    /\ slots = << >>
    /\ imported_materials = << >>
    /\ is_toon = FALSE
    /\ crunch_verts_materials = << >>
    /\ pc = [phase |-> "run", d |-> 0, m |-> 0, i |-> 0, cur |-> 0, pending |-> << >>]
    /\ aborted = FALSE
    /\ log = << >>
    /\ last = << >>

\* the run on the requests that meet a fatal error or carry malformed layers
InitFatal ==
    /\ \E w \in FatalWorlds \cup AnimWorldsOf({<<[name |-> "Clip", frame_start |-> 0]>>})
                   \cup MalformedWorlds :
          response = w.response /\ node_groups = w.node_groups /\ scene = SceneOf(w)
    /\ messages = << >>
    /\ original = response
    /\ materials = << >>
    /\ slots = << >>
    /\ imported_materials = << >>
    /\ is_toon = FALSE
    /\ crunch_verts_materials = << >>
    /\ pc = [phase |-> "run", d |-> 0, m |-> 0, i |-> 0, cur |-> 0, pending |-> << >>]
    /\ aborted = FALSE
    /\ log = << >>
    /\ last = << >>

SpecFatal == InitFatal /\ [][Next]_vars

Spec == Init /\ [][Next]_vars


----------------------------------------------------------------------------
(* Properties.  `log` lists the calls of import_material of the run, `last` *)
(* holds the details of the latest one.                                     *)

\* the material object the latest call assigned to its slot
LastMaterial == materials[last.material]

\* the node `id` of that material's graph
LastNode(id) == LastMaterial.nodes[FirstIndex(LastMaterial.nodes, LAMBDA n : n.id = id)]

\* the latest call built a graph
Built == log # << >> /\ ~last.hit

----------------------------------------------------------------------------
(* Cache *)

\* a call whose fingerprint an earlier call of the same DataImportTask
\* registered is a hit: the slot gets the registered material, and neither
\* the materials nor the cache change
C1_Step ==
    (log' # log) =>
        LET call == log'[Len(log')]
            earlier == {i \in 1..Len(log) : log[i].d = call.d /\ log[i].hash = call.hash}
        IN  earlier # {} =>
                /\ call.hit
                /\ materials' = materials
                /\ imported_materials' = imported_materials
                /\ \A i \in earlier : slots'[call.key][call.index] = log[i].material

\* C1 (amended): within one DataImportTask (one Data item of the run), when
\* import_material is called twice with the same fingerprint, the second call
\* assigns to its slot the very material object the first call registered and
\* builds no graph: no material is created or changed.
C1_CacheIdentity == [][C1_Step]_vars

\* C1, witness: a second call of one DataImportTask with the fingerprint of an
\* earlier one, which was a hit
C1_Witness ==
    \E i, j \in 1..Len(log) :
        i < j /\ log[i].d = log[j].d /\ log[i].hash = log[j].hash /\ ~log[i].hit /\ log[j].hit

\* C1 as stated: the same over the whole run, across its Data items
C1_WithinRun ==
    \A i, j \in 1..Len(log) :
        (i < j /\ log[i].hash = log[j].hash) => (log[j].hit /\ log[j].material = log[i].material)

\* the calls of the log with the fingerprint `hash`, of the task `d`
CallsOf(d, hash) == {j \in 1..Len(log) : log[j].d = d /\ log[j].hash = hash}

\* the calls of the log with the fingerprint `hash`, of any task
CallsOfRun(hash) == {j \in 1..Len(log) : log[j].hash = hash}

\* C2 (amended): within one DataImportTask a graph is built at most once per
\* fingerprint, and all calls with that fingerprint assign the same material
\* object.
C2_OncePerTask ==
    \A i \in 1..Len(log) :
        /\ Cardinality({j \in CallsOf(log[i].d, log[i].hash) : ~log[j].hit}) <= 1
        /\ \A j \in CallsOf(log[i].d, log[i].hash) : log[j].material = log[i].material

\* C2, witness: two Data items were imported, the second with a build and a
\* later hit of a fingerprint that the first had built as well
C2_Witness ==
    \E i, j, k \in 1..Len(log) :
        /\ log[i].d = 1 /\ log[j].d = 2 /\ log[k].d = 2 /\ j < k
        /\ log[i].hash = log[j].hash /\ log[j].hash = log[k].hash
        /\ ~log[i].hit /\ ~log[j].hit /\ log[k].hit

\* C2 as stated: at most one build per fingerprint in the whole run
C2_OncePerRun ==
    \A i \in 1..Len(log) :
        /\ Cardinality({j \in CallsOfRun(log[i].hash) : ~log[j].hit}) <= 1
        /\ \A j \in CallsOfRun(log[i].hash) : log[j].material = log[i].material

----------------------------------------------------------------------------
(* Family selection *)

\* the family predicates, as the `if` statements test them
MatchesLayered(p) ==
    TruthyBool(get_param_multiple(p.switches, layer_switch_names))
        /\ TruthyStr(get_param_multiple(p.textures, extra_layer_names))
MatchesToon(p) == \E x \in {"LitDiffuse", "ShadedDiffuse"} : TruthyStr(get_param(p.textures, x))
MatchesValet(material_data) == Get(material_data, "AbsoluteParent") = <<"M_FN_Valet_Master">>
MatchesGlass(material_data) == TruthyBool(Get(material_data, "UseGlassMaterial"))
MatchesTrunk(p) == TruthyBool(get_param(p.switches, "IsTrunk"))
MatchesFoliage(material_data) == TruthyBool(Get(material_data, "UseFoliageMaterial"))

\* the mapping table and the root template of the earliest matching family
FirstMatch(p, material_data) ==
    IF MatchesLayered(p) THEN <<"layer_mappings", "FP Layer">>
    ELSE IF MatchesToon(p) THEN <<"toon_mappings", "FP Toon">>
    ELSE IF MatchesValet(material_data) THEN <<"valet_mappings", "FP Valet">>
    ELSE IF MatchesGlass(material_data) THEN <<"glass_mappings", "FP Glass">>
    ELSE IF MatchesTrunk(p) THEN <<"trunk_mappings", "FP Material">>
    ELSE IF MatchesFoliage(material_data) THEN <<"foliage_mappings", "FP Foliage">>
    ELSE <<"default_mappings", "FP Material">>

\* C3 as stated: the mapping table and the root template of a built graph are
\* those of the earliest matching family in the order layered, toon, valet,
\* glass, trunk, foliage, default.
C3_FirstMatchWins ==
    Built =>
        /\ last.socket_mappings = FirstMatch(last.params, last.before)[1]
        /\ LastNode(last.shader_node).node_tree = FirstMatch(last.params, last.before)[2]

\* C4: whenever the IsTrunk switch is true the mapping table is the trunk
\* table, the root is not the foliage template and sub-surface translucency is
\* not enabled, even with UseFoliageMaterial set.
C4_TrunkPrecedence ==
    (Built /\ MatchesTrunk(last.params)) =>
        /\ last.socket_mappings = "trunk_mappings"
        /\ LastNode(last.shader_node).node_tree # "FP Foliage"
        /\ ~LastMaterial.use_sss_translucency

\* C4, witness: a graph built for a descriptor with IsTrunk true and
\* UseFoliageMaterial set
C4_Witness ==
    /\ Built /\ MatchesTrunk(last.params) /\ MatchesFoliage(last.before)
    /\ last.socket_mappings = "trunk_mappings"

----------------------------------------------------------------------------
(* Merge and fingerprint *)

RECURSIVE Concat(_)
\* the concatenation of a sequence of sequences
Concat(lists) == IF lists = << >> THEN << >> ELSE Head(lists) \o Concat(Tail(lists))

\* the texture parameters the layers of a call hand to the merge, in the
\* order of the merge: Diffuse, Normal, Specular of each TextureData entry,
\* then the Textures of each applicable OverrideParameters set
LayerTextures(material_data, meta_data) ==
    LET texture_data == TextureDataOf(meta_data)
        overrides == ApplicableOverrides(material_data, meta_data)
    IN  Concat([i \in 1..Len(texture_data) |->
                    Get(texture_data[i], "Diffuse") \o Get(texture_data[i], "Normal")
                        \o Get(texture_data[i], "Specular")])
        \o Concat([i \in 1..Len(overrides) |-> overrides[i].Textures])

\* the scalar parameters of the applicable OverrideParameters sets, in order
LayerScalars(material_data, meta_data) ==
    LET overrides == ApplicableOverrides(material_data, meta_data)
    IN  Concat([i \in 1..Len(overrides) |-> overrides[i].Scalars])

\* merged is base with every entry replaced by the last layer parameter of
\* its name (if any), followed by the last layer parameter of every other
\* name, these names in the order of their first occurrence
MergedAs(base, layer, merged) ==
    LET LastOf(name) ==
            layer[CHOOSE i \in 1..Len(layer) :
                      /\ layer[i].Name = name
                      /\ \A j \in (i + 1)..Len(layer) : layer[j].Name # name]
        InLayer(name) == \E i \in 1..Len(layer) : layer[i].Name = name
        InBase(name) == \E i \in 1..Len(base) : base[i].Name = name
        added == Dedup(SelectSeq([i \in 1..Len(layer) |-> layer[i].Name], LAMBDA name : ~InBase(name)))
    IN  /\ Len(merged) = Len(base) + Len(added)
        /\ \A i \in 1..Len(base) :
              merged[i] = IF InLayer(base[i].Name) THEN LastOf(base[i].Name) ELSE base[i]
        /\ \A k \in 1..Len(added) : merged[Len(base) + k] = LastOf(added[k])
        /\ UniqueNames(merged)

\* C5: for a base sequence with unique names, the merge leaves one entry per
\* name: a base entry whose name a layer parameter has keeps its position and
\* gets the value of the last such parameter, the other base entries are
\* unchanged, and the layer parameters of new names are appended at the end.
C5_MergeOrder ==
    Built =>
        /\ UniqueNames(last.before.Textures) =>
              MergedAs(last.before.Textures, LayerTextures(last.before, last.meta_data),
                       last.params.textures)
        /\ UniqueNames(last.before.Scalars) =>
              MergedAs(last.before.Scalars, LayerScalars(last.before, last.meta_data),
                       last.params.scalars)

\* C5, witness: two layers give a base texture two different values, the
\* later one is in the merged list at the base position, and a texture of a
\* new name was appended
C5_Witness ==
    /\ Built /\ UniqueNames(last.before.Textures)
    /\ LET layer == LayerTextures(last.before, last.meta_data)
           base == last.before.Textures
       IN  /\ \E i, j \in 1..Len(layer), b \in 1..Len(base) :
                 /\ i < j /\ layer[i].Name = base[b].Name /\ layer[j].Name = base[b].Name
                 /\ layer[i].Value # layer[j].Value
                 /\ \A k \in (j + 1)..Len(layer) : layer[k].Name # base[b].Name
                 /\ last.params.textures[b] = layer[j]
           /\ Len(last.params.textures) > Len(base)

RECURSIVE Sum(_)
\* the sum of a sequence of integers
Sum(xs) == IF xs = << >> THEN 0 ELSE Head(xs) + Sum(Tail(xs))

\* the calls i and j resolve the same descriptor, j with one more applicable
\* layer after those of i
ExtraLayer(i, j) ==
    /\ log[i].base = log[j].base
    /\ Len(log[j].layers) = Len(log[i].layers) + 1
    /\ SubSeq(log[j].layers, 1, Len(log[i].layers)) = log[i].layers

\* C6 (amended): of two resolutions of the same descriptor, the second with
\* one additional applicable layer, the fingerprints differ exactly when the
\* hash of the additional layer is not 0, and the display names differ exactly
\* when the two sums of layer hashes differ in absolute value.
C6_Sensitivity ==
    \A i, j \in 1..Len(log) :
        ExtraLayer(i, j) =>
            /\ (log[i].hash # log[j].hash) <=> (log[j].layers[Len(log[j].layers)] # 0)
            /\ (log[i].name # log[j].name) <=> (abs(Sum(log[i].layers)) # abs(Sum(log[j].layers)))

\* C6, witness: an additional layer of non-zero hash changed the fingerprint
\* and the display name
C6_Witness ==
    \E i, j \in 1..Len(log) :
        /\ ExtraLayer(i, j) /\ log[j].layers[Len(log[j].layers)] # 0
        /\ log[i].hash # log[j].hash /\ log[i].name # log[j].name

\* C6 as stated: the fingerprints and the display names differ for every
\* value of the hashes
C6_AlwaysDiffer ==
    \A i, j \in 1..Len(log) :
        ExtraLayer(i, j) => (log[i].hash # log[j].hash /\ log[i].name # log[j].name)

\* C7 as stated: the lists a graph is built from are the merge of the
\* descriptor's original lists with the layers of the current call, and the
\* descriptors of the request stay as they were received.
C7_Deterministic ==
    Built =>
        /\ last.params = merge_params(Descriptor(original, last.ref), last.meta_data)
        /\ last.before = Descriptor(original, last.ref)

----------------------------------------------------------------------------
(* Resolution of the parameters *)

\* the parameters of a call in the order setup_params resolves them
Resolved(p) ==
    Tagged("texture", p.textures) \o Tagged("scalar", p.scalars) \o Tagged("vector", p.vectors)
        \o Tagged("component_mask", p.component_masks) \o Tagged("switch", p.switches)

\* the calls of the resolvers made by setup_params(socket_mappings, shader_node, True)
TopEvents == SelectSeq(last.events, LAMBDA e : e.top)

\* the root is linked to the output node
RootLinked ==
    /\ last.linked
    /\ \E i \in 1..Len(LastMaterial.links) :
          /\ LastMaterial.links[i].from = last.shader_node
          /\ LastMaterial.links[i].to = 1
          /\ LastMaterial.links[i].slot = "Surface"

\* C8: when the resolution of a parameter raises, every parameter of the call
\* is still handed to its resolver, in order, and the root is linked to the
\* output node.
C8_PartialFailure ==
    (Built /\ \E k \in 1..Len(TopEvents) : TopEvents[k].outcome = "raised") =>
        /\ Len(TopEvents) = Len(Resolved(last.params))
        /\ \A k \in 1..Len(TopEvents) :
              /\ TopEvents[k].kind = Resolved(last.params)[k].kind
              /\ TopEvents[k].name = Get(Resolved(last.params)[k].data, "Name")
              /\ TopEvents[k].value = Get(Resolved(last.params)[k].data, "Value")
        /\ RootLinked

\* C8, witness: a texture and a scalar raised, parameters of the same and of
\* later kinds were resolved after them, and the root is linked
C8_Witness ==
    /\ Built /\ RootLinked
    /\ \E i, j, k, l \in 1..Len(TopEvents) :
          /\ i < j /\ j < k /\ k < l
          /\ TopEvents[i].kind = "texture" /\ TopEvents[i].outcome = "raised"
          /\ TopEvents[j].kind = "texture" /\ TopEvents[j].outcome # "raised"
          /\ TopEvents[k].kind = "scalar" /\ TopEvents[k].outcome = "raised"
          /\ TopEvents[l].kind = "switch" /\ TopEvents[l].outcome # "raised"

\* the vertex-crunch test on the latest call
IsCrunch == is_vertex_crunch(last.name, last.params)

\* inputs of the root that only the post-processing assigns
PostInputs == {"AO", "Cavity", "Subsurface", "Skin Color", "Skin Boost", "Emission Strength", "Brightness"}

\* C9: a vertex-crunch material is marked Crunch Verts, the Alpha input of its
\* root is 0 and nothing of the post-processing happened: no AO, Cavity,
\* Subsurface, skin, emissive or brightness input is assigned, no vertex
\* colour or gradient node exists and is_toon is as before the call.
C9_CrunchShortCircuit ==
    (Built /\ IsCrunch) =>
        /\ LastMaterial.crunch_verts /\ last.crunch
        /\ LastNode(last.shader_node).inputs["Alpha"] = <<0>>
        /\ DOMAIN LastNode(last.shader_node).inputs \cap PostInputs = {}
        /\ \A i \in 1..Len(LastMaterial.nodes) :
              /\ LastMaterial.nodes[i].type # "ShaderNodeVertexColor"
              /\ LastMaterial.nodes[i].node_tree \notin {"FP Gradient", "FP Vertex Alpha"}
        /\ ~last.gradient
        /\ last.toon_after = last.toon_before
        /\ ~last.error

\* C9, witness: a vertex-crunch material by name and one by HT_CrunchVerts,
\* with a toon root or with switches that call for post-processing
C9_Witness ==
    /\ Built /\ IsCrunch /\ LastMaterial.crunch_verts
    /\ \/ /\ last.name \in vertex_crunch_names
          /\ LastNode(last.shader_node).node_tree = "FP Toon"
       \/ /\ get_param(last.params.scalars, "HT_CrunchVerts") = <<1>>
          /\ TruthyBool(get_param(last.params.switches, "useGmapGradientLayers"))
          /\ get_param(last.params.switches, "Emissive") = <<FALSE>>

\* the rules of a mapping table for a kind of parameter
KindRules(table, kind) ==
    CASE kind = "texture" -> table.textures
      [] kind = "scalar" -> table.scalars
      [] kind = "vector" -> table.vectors
      [] kind = "component_mask" -> table.component_masks
      [] kind = "switch" -> table.switches

\* the parameter of an event is absent from the active mapping table
Unmapped(e) ==
    first(KindRules(Mappings(last.socket_mappings), e.kind), LAMBDA x : <<x.name>> = e.name) = << >>

\* the distance between two exposed nodes, by kind
Pitch(kind) ==
    CASE kind = "texture" -> 50
      [] kind = "scalar" -> 100
      [] kind = "vector" -> 200
      [] kind = "component_mask" -> 200
      [] kind = "switch" -> 125

\* what an exposed node of a kind carries
Carries(node, e) ==
    CASE e.kind = "texture" -> <<node.image>> = e.value
      [] e.kind = "scalar" -> node.value = e.value
      [] e.kind \in {"vector", "component_mask"} ->
            node.value = <<e.value[1].R, e.value[1].G, e.value[1].B, e.value[1].A>>
      [] e.kind = "switch" -> node.inputs["Value"] = (IF e.value = <<TRUE>> THEN <<1>> ELSE <<0>>)

\* the event's node is unwired, labelled with the parameter's name, carries
\* its value and is placed at (400, y)
ExposedAt(e, y) ==
    /\ e.node # 0
    /\ \E i \in 1..Len(LastMaterial.nodes) : LastMaterial.nodes[i].id = e.node
    /\ <<LastNode(e.node).label>> = e.name
    /\ LastNode(e.node).location = <<400, y>>
    /\ Carries(LastNode(e.node), e)
    /\ \A i \in 1..Len(LastMaterial.links) :
          LastMaterial.links[i].from # e.node /\ LastMaterial.links[i].to # e.node

\* minus the pitches of the events before the k-th that satisfy `counts`
OffsetBefore(events, k, counts(_)) ==
    0 - Sum([i \in 1..(k - 1) |-> IF counts(events[i]) THEN Pitch(events[i].kind) ELSE 0])

\* C10 (amended): each parameter absent from the active mapping table whose
\* resolution does not raise produces an unwired, labelled node carrying its
\* value at horizontal position 400; the vertical offset starts at 0 and
\* decreases by the kind's pitch after each such parameter, so that any two
\* of them have distinct offsets.  A parameter whose resolution raises is not
\* labelled or placed and leaves the offset as it is.
C10_Exposure ==
    Built =>
        \A k \in 1..Len(TopEvents) :
            Unmapped(TopEvents[k]) =>
                /\ TopEvents[k].outcome \in {"exposed", "raised"}
                /\ TopEvents[k].outcome = "exposed" =>
                      ExposedAt(TopEvents[k],
                                OffsetBefore(TopEvents, k, LAMBDA e : e.outcome = "exposed"))
                /\ TopEvents[k].outcome = "raised" =>
                      /\ LastNode(TopEvents[k].node).label = ""
                      /\ LastNode(TopEvents[k].node).location = <<0, 0>>
                /\ \A l \in 1..(k - 1) :
                      (TopEvents[k].outcome = "exposed" /\ TopEvents[l].outcome = "exposed") =>
                          LastNode(TopEvents[l].node).location[2]
                              > LastNode(TopEvents[k].node).location[2]

\* C10, witness: unmapped parameters of all five kinds were exposed, after an
\* unmapped texture whose resolution raised
C10_Witness ==
    /\ Built
    /\ \A kind \in {"texture", "scalar", "vector", "component_mask", "switch"} :
          \E k \in 1..Len(TopEvents) :
              TopEvents[k].kind = kind /\ Unmapped(TopEvents[k]) /\ TopEvents[k].outcome = "exposed"
    /\ \E k, l \in 1..Len(TopEvents) :
          /\ k < l /\ Unmapped(TopEvents[k]) /\ TopEvents[k].outcome = "raised"
          /\ TopEvents[l].outcome = "exposed"

\* C10 as stated: every parameter absent from the active mapping table
\* produces such a node, the offset decreasing after each one
C10_EveryUnmapped ==
    Built =>
        \A k \in 1..Len(TopEvents) :
            Unmapped(TopEvents[k]) =>
                ExposedAt(TopEvents[k], OffsetBefore(TopEvents, k, Unmapped))

----------------------------------------------------------------------------
(* The nested call of setup_params for the gradient sub-graph *)

\* the calls of the resolvers made by setup_params(gradient_mappings, gradient_node)
NestedEvents == SelectSeq(last.events, LAMBDA e : ~e.top)

\* the parameter of an event has no rule in gradient_mappings
UnmappedInGradient(e) ==
    first(KindRules(gradient_mappings, e.kind), LAMBDA x : <<x.name>> = e.name) = << >>

\* unused_parameter_offset when the k-th resolver call of the latest build began
OffsetAt(k) == IF k = 1 THEN 0 ELSE last.events[k - 1].offset

\* the graph of the latest build has a node `id`
HasNode(id) == \E i \in 1..Len(LastMaterial.nodes) : LastMaterial.nodes[i].id = id

\* C11 as stated: in the nested call for the gradient sub-graph a parameter
\* of any kind without a rule in gradient_mappings adds no node to the graph
\* and leaves unused_parameter_offset as it is.
C11_NestedDrop ==
    Built =>
        \A k \in 1..Len(last.events) :
            (~last.events[k].top /\ UnmappedInGradient(last.events[k])) =>
                /\ ~HasNode(last.events[k].node)
                /\ last.events[k].offset = OffsetAt(k)

\* what of C11 the code does: such a parameter never moves the offset, and of
\* the five kinds only a texture leaves a node, an unlinked unlabelled sampler
C11_NestedTextureNode ==
    Built =>
        \A k \in 1..Len(last.events) :
            (~last.events[k].top /\ UnmappedInGradient(last.events[k])) =>
                /\ last.events[k].offset = OffsetAt(k)
                /\ last.events[k].kind # "texture" => last.events[k].node = 0
                /\ last.events[k].kind = "texture" =>
                      /\ HasNode(last.events[k].node)
                      /\ LastNode(last.events[k].node).type = "ShaderNodeTexImage"
                      /\ LastNode(last.events[k].node).label = ""
                      /\ LastNode(last.events[k].node).location = <<0, 0>>
                      /\ \A i \in 1..Len(LastMaterial.links) :
                            LastMaterial.links[i].from # last.events[k].node

\* a gradient sub-graph was built for a material with a texture, a scalar, a
\* vector, a component mask and a switch that gradient_mappings has no rule for
C11_Reached ==
    /\ Built /\ last.gradient
    /\ \A kind \in {"texture", "scalar", "vector", "component_mask", "switch"} :
          \E k \in 1..Len(NestedEvents) :
              NestedEvents[k].kind = kind /\ UnmappedInGradient(NestedEvents[k])

----------------------------------------------------------------------------
(* Fatal errors of a build *)

\* a node group of the library is absent
AbsentTemplate == \E t \in Templates : t \notin DOMAIN node_groups

\* materials, meshes or Data items of the request are still to be processed
Remaining ==
    \/ pc.d < Len(response.Data)
    \/ pc.phase # "run" /\ pc.m < Len(CurrentData.Meshes)
    \/ pc.phase = "materials" /\ pc.i <= Len(CurrentMesh.Materials)

\* C12 as stated: when the construction of a material stops because a
\* template is absent from the library, the run goes on: no exception leaves
\* ImportTask.run while materials, meshes or Data items remain.
C12_RunContinues ==
    (AbsentTemplate /\ log # << >> /\ last.error) => ~(aborted /\ Remaining)

\* an exception of a build left ImportTask.run with the root template absent,
\* and with a sub-graph template absent
C12_RootAbsent ==
    /\ aborted /\ Remaining /\ log # << >> /\ last.error /\ node_groups_get("FP Material") = None
C12_SubGraphAbsent ==
    /\ aborted /\ Remaining /\ log # << >> /\ last.error /\ last.linked
    /\ \E t \in {"FP Vertex Alpha", "FP Gradient", "FP Texture Cropping"} : node_groups_get(t) = None

\* C15 as stated: a fingerprint is in the cache only when the build it was
\* registered for ran to its end.
C15_RegisteredComplete ==
    (Built /\ last.error) => last.hash \notin DOMAIN imported_materials

\* a build stopped in its post-processing, after the root was linked, and the
\* fingerprint is in the cache of the task
C15_Reached ==
    /\ Built /\ last.error /\ last.linked /\ ~AbsentTemplate
    /\ last.hash \in DOMAIN imported_materials
    /\ imported_materials[last.hash] = last.material

----------------------------------------------------------------------------
(* Wiring of the mapped textures *)

\* the rule of the active mapping table for the texture of an event, if any
TextureRule(e) == first(Mappings(last.socket_mappings).textures, LAMBDA x : <<x.name>> = e.name)

\* the k-th resolver call of the top-level setup_params is a texture that has a rule
MappedTexture(k) == TopEvents[k].kind = "texture" /\ TextureRule(TopEvents[k]) # << >>

\* the k-th call linked its sampler to the input `slot` of the root
WiredTo(k, slot) ==
    /\ MappedTexture(k) /\ TopEvents[k].outcome = "mapped"
    /\ slot \in {TextureRule(TopEvents[k])[1].slot, TextureRule(TopEvents[k])[1].alpha_slot}

\* the links of the finished graph into the input `slot` of the root
IntoRoot(slot) ==
    SelectSeq(LastMaterial.links, LAMBDA l : l.to = last.shader_node /\ l.slot = slot)

\* the samplers of the top-level texture parameters
TextureNodes == {TopEvents[k].node : k \in {i \in 1..Len(TopEvents) : TopEvents[i].kind = "texture"}}

\* the post-processing gave the input `slot` of the root a link of its own
PostRelinked(slot) == \E i \in 1..Len(IntoRoot(slot)) : IntoRoot(slot)[i].from \notin TextureNodes

\* the link the k-th call made into `slot` is in the finished graph, and is
\* the only link into that input
KeepsLink(k, slot) ==
    IntoRoot(slot) = <<[from |-> TopEvents[k].node,
                        out |-> IF TextureRule(TopEvents[k])[1].alpha_slot = slot THEN 1 ELSE 0,
                        to |-> last.shader_node, slot |-> slot]>>

\* the image of the texture can be loaded and the root has the inputs its rule names
Wireable(e) ==
    /\ texture_image(e.value) # None
    /\ HasInput(LastNode(last.shader_node), TextureRule(e)[1].slot)
    /\ TextureRule(e)[1].alpha_slot # None =>
          HasInput(LastNode(last.shader_node), TextureRule(e)[1].alpha_slot)

\* C13 (amended): a texture parameter with a rule in the active mapping table
\* is wired exactly when its image can be loaded and the root has the inputs
\* the rule names (the root of another family under the trunk table need
\* not): the primary output of its sampler to the rule's slot (the rule's
\* name when it declares none), the alpha output to the alpha slot exactly
\* when the rule declares one, and to no input named after the parameter
\* unless that is the rule's slot.  An input holds one link: the link stays
\* in the finished graph unless a later texture of the call was wired to the
\* same input, which then holds the later link only, or the post-processing
\* removed the sampler or relinked the input.
C13_MappedWiring ==
    Built =>
        \A k \in 1..Len(TopEvents) :
            MappedTexture(k) =>
                LET e == TopEvents[k]
                    rule == TextureRule(e)[1]
                    from_e == SelectSeq(LastMaterial.links, LAMBDA l : l.from = e.node)
                IN  /\ (e.outcome = "mapped") <=> Wireable(e)
                    /\ e.outcome # "mapped" => from_e = << >>
                    /\ e.outcome = "mapped" =>
                          \A slot \in {rule.slot, rule.alpha_slot} \ {None} :
                              IF \E l \in (k + 1)..Len(TopEvents) : WiredTo(l, slot)
                              THEN \A i \in 1..Len(IntoRoot(slot)) : IntoRoot(slot)[i].from # e.node
                              ELSE HasNode(e.node) /\ ~PostRelinked(slot) => KeepsLink(k, slot)
                    /\ rule.alpha_slot = None => \A i \in 1..Len(from_e) : from_e[i].out # 1
                    /\ rule.slot # e.name[1] =>
                          \A i \in 1..Len(from_e) : from_e[i].slot # e.name[1]

\* C13, witness: with IsTrunk true the texture Trunk_BaseColor is linked to
\* the input Diffuse of the root, next to a texture Diffuse that the trunk
\* table has no rule for
C13_Witness ==
    /\ Built /\ MatchesTrunk(last.params) /\ last.socket_mappings = "trunk_mappings"
    /\ \E k, l \in 1..Len(TopEvents) :
          /\ TopEvents[k].kind = "texture" /\ TopEvents[k].name = <<"Trunk_BaseColor">>
          /\ TopEvents[k].outcome = "mapped" /\ KeepsLink(k, "Diffuse")
          /\ IntoRoot("Trunk_BaseColor") = << >>
          /\ TopEvents[l].kind = "texture" /\ TopEvents[l].name = <<"Diffuse">>
          /\ TopEvents[l].outcome = "exposed"

\* textures with a rule were wired to one input, the later one displacing the
\* earlier, and a texture with an alpha slot has both outputs linked
C13_Displaced ==
    /\ Built
    /\ \E k, l \in 1..Len(TopEvents) :
          k < l /\ WiredTo(k, "Diffuse") /\ WiredTo(l, "Diffuse") /\ KeepsLink(l, "Diffuse")
C13_AlphaLinked ==
    /\ Built
    /\ \E k \in 1..Len(TopEvents) :
          /\ WiredTo(k, "Background Diffuse Alpha")
          /\ KeepsLink(k, "Background Diffuse") /\ KeepsLink(k, "Background Diffuse Alpha")

\* C13 as stated: every texture parameter with a rule in the active mapping
\* table has the primary output of its sampler linked to the rule's slot, and
\* its alpha output to the alpha slot exactly when the rule declares one
C13_EveryMappedLinked ==
    Built =>
        \A k \in 1..Len(TopEvents) :
            MappedTexture(k) =>
                LET e == TopEvents[k]
                    rule == TextureRule(e)[1]
                    linked(out, slot) ==
                        \E i \in 1..Len(LastMaterial.links) :
                            LastMaterial.links[i] = [from |-> e.node, out |-> out,
                                                     to |-> last.shader_node, slot |-> slot]
                IN  /\ linked(0, rule.slot)
                    /\ (rule.alpha_slot # None) <=>
                          \E i \in 1..Len(LastMaterial.links) :
                              LastMaterial.links[i].from = e.node /\ LastMaterial.links[i].out = 1

----------------------------------------------------------------------------
(* Animation import *)

\* the armatures among the selected objects
SelectedArmatures == {i \in 1..Len(scene.objects) :
                         scene.objects[i].type = "ARMATURE" /\ scene.objects[i].selected}

\* the selected meshes that carry an armature modifier
SkinnedMeshes ==
    {i \in 1..Len(scene.objects) :
        /\ scene.objects[i].type = "MESH" /\ scene.objects[i].selected
        /\ \E k \in 1..Len(scene.objects[i].modifiers) : scene.objects[i].modifiers[k].type = "ARMATURE"}

\* the message import_anim_data owes the operator in the current scene: none
\* when the selection yields an armature that is not a Tasty rig
Refusal ==
    LET target == armature_from_selection(scene.objects)
    IN  IF target = 0 THEN <<NoArmatureMessage>>
        ELSE IF ObjectOf(scene.objects, target).is_tasty_rig THEN <<TastyRigMessage>>
        ELSE << >>

\* a step of the run that handles a Data item of primitive type Animation
AnimationStep ==
    /\ pc.phase = "run" /\ pc'.phase = "run" /\ pc'.d = pc.d + 1
    /\ response.Data[pc'.d].PrimitiveType = "Animation"

C14_Step ==
    (AnimationStep /\ Refusal # << >>) =>
        /\ messages' = Append(messages, Refusal[1])
        /\ scene' = scene
        /\ materials' = materials /\ slots' = slots /\ log' = log
        /\ ~aborted'

\* C14: when import_anim_data finds no armature in the selection, or the
\* armature it finds is a Tasty rig, it sends exactly one message and leaves
\* the scene as it was: no animation data cleared or created, no sequence
\* removed, no object or sound added, no material touched.
C14_Precondition == [][C14_Step]_vars

\* C14, witness: an animation was refused for a Tasty rig that a selected
\* mesh's modifier led to; the rig's old animation data, its Master_Skeleton
\* child and the old sound strip are still there
C14_Witness ==
    /\ messages = <<TastyRigMessage>> /\ pc.d = 1
    /\ SelectedArmatures = {} /\ SkinnedMeshes # {}
    /\ scene.objects[1].animation_data = OldAnimation
    /\ Len(scene.objects) = 3 /\ scene.objects[2].name = "Master_Skeleton"
    /\ scene.sequences = OldSequences

\* C14, the other case: two animations refused, one message each, because
\* the last selected mesh's armature modifier refers to no object
C14_NoArmature ==
    /\ messages = <<NoArmatureMessage, NoArmatureMessage>> /\ pc.d = 2
    /\ Cardinality(SkinnedMeshes) = 2
    /\ scene.objects[1].animation_data = OldAnimation

\* C14, the complement: an accepted animation replaced the old data
C14_Imported ==
    /\ messages = << >> /\ pc.d = 1 /\ Len(scene.objects) > 0
    /\ scene.objects[1].animation_data # << >> /\ scene.objects[1].animation_data # OldAnimation
    /\ \E i \in 1..Len(scene.objects) : scene.objects[i].name = "Guitar"
    /\ \A i \in 1..Len(scene.sequences) : scene.sequences[i].name = "Emote" => scene.sequences[i].frame_start = 30

----------------------------------------------------------------------------
(* Order of lookup and merge *)

\* the merge of the latest call would change the lists of its descriptor
MergeMatters == merge_params(last.before, last.meta_data) # ParamsOf(last.before)

C16_Step ==
    (log' # log) =>
        /\ last'.hit <=> last'.hash \in DOMAIN imported_materials
        /\ last'.hit =>
              /\ response' = response
              /\ last'.params = ParamsOf(last'.before)
        /\ ~last'.hit =>
              /\ ParamsOf(Descriptor(response', last'.ref)) = merge_params(last'.before, last'.meta_data)
              /\ last'.params = merge_params(last'.before, last'.meta_data)

C16_MissMerged ==
    /\ Built /\ MergeMatters
    /\ ParamsOf(Descriptor(response, last.ref)) = merge_params(last.before, last.meta_data)

----------------------------------------------------------------------------
(* One family *)

\* the root template of the family a mapping table belongs to
RootOf(socket_mappings) ==
    CASE socket_mappings = "layer_mappings" -> "FP Layer"
      [] socket_mappings = "toon_mappings" -> "FP Toon"
      [] socket_mappings = "valet_mappings" -> "FP Valet"
      [] socket_mappings = "glass_mappings" -> "FP Glass"
      [] socket_mappings = "foliage_mappings" -> "FP Foliage"
      [] OTHER -> "FP Material"

\* the material of the latest call blends translucently and hides its back face
GlassEffects == LastMaterial.blend_method = "BLEND" /\ ~LastMaterial.show_transparent_back

\* C17 as stated: the mapping table, the root template and the material-level
\* effects of a built graph belong to one family: the root is the template of
\* the table's family, the glass effects are there exactly with the glass
\* table and sub-surface translucency exactly with the foliage table.
C17_SingleFamily ==
    Built =>
        /\ LastNode(last.shader_node).node_tree = RootOf(last.socket_mappings)
        /\ GlassEffects <=> last.socket_mappings = "glass_mappings"
        /\ LastMaterial.use_sss_translucency <=> last.socket_mappings = "foliage_mappings"

\* glass flag plus foliage flag: the foliage table and root, with the blend
\* mode and hidden back face of glass
C17_GlassFoliage ==
    /\ Built /\ ~last.error /\ last.socket_mappings = "foliage_mappings"
    /\ LastNode(last.shader_node).node_tree = "FP Foliage"
    /\ LastMaterial.use_sss_translucency /\ GlassEffects

\* trunk switch plus glass flag: the trunk table on the glass root
C17_TrunkGlass ==
    /\ Built /\ last.socket_mappings = "trunk_mappings"
    /\ LastNode(last.shader_node).node_tree = "FP Glass" /\ GlassEffects

\* what does hold: the effects are those of the flags, whatever table won
C17_EffectsOfFlags ==
    Built =>
        /\ GlassEffects <=> MatchesGlass(last.before)
        /\ LastMaterial.use_sss_translucency <=> (MatchesFoliage(last.before) /\ ~MatchesTrunk(last.params))

----------------------------------------------------------------------------
(* Layered predicate *)

\* some entry of the list has one of the names
Present(list, names) == \E i \in 1..Len(list) : list[i].Name \in names

\* the list in the opposite order
Reversed(list) == [i \in 1..Len(list) |-> list[Len(list) + 1 - i]]

\* the latest descriptor matches no family but, possibly, the layered one
OnlyLayered ==
    /\ ~MatchesToon(last.params) /\ ~MatchesValet(last.before) /\ ~MatchesGlass(last.before)
    /\ ~MatchesTrunk(last.params) /\ ~MatchesFoliage(last.before)

\* the layered branch was taken: its table and root are those of the graph
TookLayered ==
    last.socket_mappings = "layer_mappings" /\ LastNode(last.shader_node).node_tree = "FP Layer"

\* the layered test of the code on the lists in the opposite order
LayeredReversed ==
    MatchesLayered([last.params EXCEPT !.switches = Reversed(last.params.switches),
                                       !.textures = Reversed(last.params.textures)])

\* C18 as stated: the layered family is chosen exactly when a listed switch
\* and a listed extra texture are present, and the order of the entries makes
\* no difference to the test.
C18_PresenceDecides ==
    (Built /\ OnlyLayered) =>
        /\ TookLayered <=> (Present(last.params.switches, layer_switch_names)
                               /\ Present(last.params.textures, extra_layer_names))
        /\ TookLayered <=> LayeredReversed

\* the order decides: a listed switch is on and an extra texture is there, the
\* graph is not layered, and with the switches in the opposite order it would be
C18_OrderDecides ==
    /\ Built /\ OnlyLayered /\ ~TookLayered /\ LayeredReversed
    /\ \E i \in 1..Len(last.params.switches) :
          last.params.switches[i].Name \in layer_switch_names /\ last.params.switches[i].Value
    /\ Present(last.params.textures, extra_layer_names)

\* what does hold: the first listed switch and the first listed texture decide
C18_FirstListedDecides ==
    (Built /\ OnlyLayered) =>
        (TookLayered <=>
            /\ Present(last.params.switches, layer_switch_names)
            /\ last.params.switches[FirstIndex(last.params.switches,
                                               LAMBDA s : s.Name \in layer_switch_names)].Value
            /\ Present(last.params.textures, extra_layer_names)
            /\ last.params.textures[FirstIndex(last.params.textures,
                                               LAMBDA t : t.Name \in extra_layer_names)].Value # "")

----------------------------------------------------------------------------
(* Replacement and uniqueness *)

\* the positions of the list whose entry has the name
Named(list, name) == {i \in 1..Len(list) : list[i].Name = name}

\* merged is list after one parameter was merged into it, every entry of the
\* parameter's name replaced
EveryReplaced(list, item, merged) ==
    IF Named(list, item.Name) = {} THEN merged = Append(list, item)
    ELSE /\ Len(merged) = Len(list)
         /\ \A i \in 1..Len(list) : merged[i] = IF list[i].Name = item.Name THEN item ELSE list[i]

\* merged is list after one parameter was merged into it, the first entry of
\* the parameter's name replaced
FirstReplaced(list, item, merged) ==
    IF Named(list, item.Name) = {} THEN merged = Append(list, item)
    ELSE /\ Len(merged) = Len(list)
         /\ \A i \in 1..Len(list) :
               merged[i] = IF i = FirstIndex(list, LAMBDA x : x.Name = item.Name) THEN item ELSE list[i]

\* the latest call merged exactly one texture and one scalar parameter
OneParameter ==
    /\ Built /\ TextureDataOf(last.meta_data) = << >>
    /\ Len(LayerTextures(last.before, last.meta_data)) = 1
    /\ Len(LayerScalars(last.before, last.meta_data)) = 1

\* C19 (amended): merging a parameter into a kind-sequence replaces every
\* entry of the same name, each at its position, and leaves the entries of
\* other names unchanged; when no entry has the name, exactly one entry is
\* appended.
C19_ReplaceEvery ==
    OneParameter =>
        /\ EveryReplaced(last.before.Textures, LayerTextures(last.before, last.meta_data)[1],
                         last.params.textures)
        /\ EveryReplaced(last.before.Scalars, LayerScalars(last.before, last.meta_data)[1],
                         last.params.scalars)

\* C19, witness: the base held the parameter's name twice with different
\* values, and both entries now hold the layer's value
C19_Witness ==
    /\ OneParameter
    /\ LET base == last.before.Textures
           item == LayerTextures(last.before, last.meta_data)[1]
       IN  /\ \E i, j \in Named(base, item.Name) : base[i].Value # base[j].Value
           /\ \A i \in Named(base, item.Name) : last.params.textures[i] = item
           /\ Len(last.params.textures) = Len(base)

\* C19, the append case: no entry of the name, one entry more
C19_Appended ==
    /\ OneParameter
    /\ Named(last.before.Textures, LayerTextures(last.before, last.meta_data)[1].Name) = {}
    /\ Len(last.before.Textures) > 1 /\ ~UniqueNames(last.before.Textures)
    /\ Len(last.params.textures) = Len(last.before.Textures) + 1

\* C19 as stated: only the first entry of the name is replaced
C19_ReplaceFirst ==
    OneParameter =>
        /\ FirstReplaced(last.before.Textures, LayerTextures(last.before, last.meta_data)[1],
                         last.params.textures)
        /\ FirstReplaced(last.before.Scalars, LayerScalars(last.before, last.meta_data)[1],
                         last.params.scalars)

\* the merge kept the number of entries of every name the base has, and gave
\* one entry to every other name
CountsKept(base, merged) ==
    \A i \in 1..Len(merged) :
        Cardinality(Named(merged, merged[i].Name)) =
            IF Named(base, merged[i].Name) = {} THEN 1 ELSE Cardinality(Named(base, merged[i].Name))

\* C20 (amended): the merge adds no second entry of a name.  After the
\* override merge a name occurs in a kind-sequence as often as it occurs in
\* the base sequence, and once when it comes from a layer only: the names are
\* unique after the merge exactly when they are unique in the base.
C20_NoNewDuplicate ==
    Built =>
        /\ CountsKept(last.before.Textures, last.params.textures)
        /\ CountsKept(last.before.Scalars, last.params.scalars)
        /\ CountsKept(last.before.Vectors, last.params.vectors)
        /\ UniqueNames(last.params.textures) <=> UniqueNames(last.before.Textures)

\* C20, witness: two layers name a new texture three times and a base
\* texture once; the merged list has the new name once and the base's
\* duplicate still twice
C20_Witness ==
    /\ Built /\ Len(LayerTextures(last.before, last.meta_data)) = 3
    /\ Cardinality(Named(LayerTextures(last.before, last.meta_data), "SpecularMasks")) = 3
    /\ Cardinality(Named(last.before.Textures, "Diffuse")) = 2
    /\ Cardinality(Named(last.params.textures, "Diffuse")) = 2
    /\ Cardinality(Named(last.params.textures, "SpecularMasks")) = 1

\* C20, the unique case: a base with unique names, layers that repeat names,
\* unique names after the merge
C20_UniqueKept ==
    /\ Built /\ UniqueNames(last.before.Textures) /\ Len(last.before.Textures) = 2
    /\ ~UniqueNames(LayerTextures(last.before, last.meta_data))
    /\ UniqueNames(last.params.textures) /\ Len(last.params.textures) = 3

\* C20 as stated: whatever the base, the names are unique after the merge
C20_AlwaysUnique ==
    Built =>
        /\ UniqueNames(last.params.textures)
        /\ UniqueNames(last.params.scalars)
        /\ UniqueNames(last.params.vectors)

----------------------------------------------------------------------------
(* Malformed layer entries *)

\* the entries of the list that have a name
WithName(list) == SelectSeq(list, LAMBDA x : "Name" \in DOMAIN x)

\* the layers of the context without their nameless entries
WellFormed(meta_data) ==
    [OverrideParameters |->
        [i \in 1..Len(meta_data.OverrideParameters) |->
            [meta_data.OverrideParameters[i] EXCEPT !.Textures = WithName(@), !.Scalars = WithName(@),
                                                    !.Vectors = WithName(@)]]]
    @@ (IF "TextureData" \in DOMAIN meta_data
        THEN [TextureData |->
                [i \in 1..Len(meta_data.TextureData) |->
                    [k \in {k \in DOMAIN meta_data.TextureData[i] :
                               k = "Hash" \/ "Name" \in DOMAIN meta_data.TextureData[i][k]}
                        |-> meta_data.TextureData[i][k]]]]
        ELSE << >>)
    @@ meta_data

\* a layer of the latest call has an entry without a name
Malformed == log # << >> /\ WellFormed(last.meta_data) # last.meta_data

\* C21 as stated: a layer entry without a name is skipped: the effective
\* lists are those the merge gives without the entry, so nothing is replaced
\* or appended for it, and the other entries are merged as usual.
C21_MalformedSkipped ==
    (Built /\ Malformed) => last.params = merge_params(last.before, WellFormed(last.meta_data))

\* a nameless layer texture was appended to the texture list, once, and the
\* named entries of the same and of the following layer were merged
C21_NamelessAppended ==
    /\ Built /\ Malformed
    /\ Len(SelectSeq(last.params.textures, LAMBDA x : "Name" \notin DOMAIN x)) = 1
    /\ WithName(last.params.textures) = merge_params(last.before, WellFormed(last.meta_data)).textures
    /\ Len(WithName(last.params.textures)) = 3

\* what does hold: an absent entry (None) of a TextureData layer is skipped,
\* and the named entries are merged as if the nameless ones were not there
C21_AbsentSkipped ==
    (Built /\ Malformed) =>
        /\ WithName(last.params.textures) = merge_params(last.before, WellFormed(last.meta_data)).textures
        /\ WithName(last.params.scalars) = merge_params(last.before, WellFormed(last.meta_data)).scalars

----------------------------------------------------------------------------
(* Fingerprint *)

\* the Hash of every TextureData entry and of every OverrideParameters set
\* for the material, summed
Contribution(material_data, meta_data) ==
    Sum([i \in 1..Len(TextureDataOf(meta_data)) |-> TextureDataOf(meta_data)[i].Hash])
    + Sum([i \in 1..Len(meta_data.OverrideParameters) |->
              IF meta_data.OverrideParameters[i].MaterialNameToAlter = material_data.Name
              THEN meta_data.OverrideParameters[i].Hash ELSE 0])

RECURSIVE HexValue(_)
\* the number a sequence of hexadecimal digits denotes
HexValue(digits) ==
    IF digits = << >> THEN 0
    ELSE 16 * HexValue(SubSeq(digits, 1, Len(digits) - 1))
         + (CHOOSE k \in 0..15 : HexDigits[k + 1] = digits[Len(digits)])

\* C22: the contribution is the sum of the Hash of every TextureData entry
\* and of every applicable OverrideParameters set.  When it is not 0, the
\* fingerprint is the base hash plus the sum and the display name is the
\* base name, '_' and the hexadecimal digits of the sum's absolute value;
\* when it is 0, fingerprint and name are those of the base.
C22_Fingerprint ==
    log # << >> =>
        IF Contribution(last.before, last.meta_data) # 0
        THEN /\ last.hash = last.before.Hash + Contribution(last.before, last.meta_data)
             /\ Len(last.name) >= 3 /\ last.name[1] = last.before.Name /\ last.name[2] = "_"
             /\ last.name[3] # "0"
             /\ \A k \in 3..Len(last.name) : \E d \in 1..16 : HexDigits[d] = last.name[k]
             /\ HexValue(SubSeq(last.name, 3, Len(last.name)))
                    = (IF Contribution(last.before, last.meta_data) < 0
                       THEN 0 - Contribution(last.before, last.meta_data)
                       ELSE Contribution(last.before, last.meta_data))
        ELSE last.hash = last.before.Hash /\ last.name = <<last.before.Name>>

\* C22, witness: a negative sum of four digits, with a set for another
\* material that does not enter it: -4096 + 255 - 255 = -4096, name Skin_1000
\* and fingerprint 10 - 4096
C22_Witness ==
    /\ log # << >> /\ Contribution(last.before, last.meta_data) = 0 - 4096
    /\ Len(last.meta_data.OverrideParameters) = 2 /\ Len(TextureDataOf(last.meta_data)) = 2
    /\ last.name = <<"Skin", "_", "1", "0", "0", "0">>
    /\ last.hash = 10 - 4096

\* C22, the zero case: layers whose hashes cancel (16 - 16 + 0), fingerprint
\* and name of the base
C22_Cancelled ==
    /\ log # << >> /\ Len(TextureDataOf(last.meta_data)) = 2
    /\ TextureDataOf(last.meta_data)[1].Hash = 16
    /\ Contribution(last.before, last.meta_data) = 0
    /\ last.hash = last.before.Hash /\ last.name = <<"Skin">>

----------------------------------------------------------------------------
(* Applicability of the variant override sets *)

\* the sets of the context that name the material, and those that name another
SetsFor(material_data, meta_data) ==
    SelectSeq(meta_data.OverrideParameters, LAMBDA p : p.MaterialNameToAlter = material_data.Name)
SetsForOthers(material_data, meta_data) ==
    SelectSeq(meta_data.OverrideParameters, LAMBDA p : p.MaterialNameToAlter # material_data.Name)

\* the context without the sets that name another material
WithoutOthers(material_data, meta_data) ==
    [meta_data EXCEPT !.OverrideParameters = SetsFor(material_data, meta_data)]

\* every parameter of the set has an entry of its name in the lists
Entered(set, p) ==
    /\ \A i \in 1..Len(set.Textures) : \E k \in 1..Len(p.textures) : p.textures[k].Name = set.Textures[i].Name
    /\ \A i \in 1..Len(set.Scalars) : \E k \in 1..Len(p.scalars) : p.scalars[k].Name = set.Scalars[i].Name
    /\ \A i \in 1..Len(set.Vectors) : \E k \in 1..Len(p.vectors) : p.vectors[k].Name = set.Vectors[i].Name

\* C23: a variant override set whose MaterialNameToAlter is not the
\* material's name (the name without the fingerprint suffix) contributes
\* nothing: fingerprint, display name and effective lists are what they are
\* without it.  A set whose target is the material's name adds its Hash to
\* the fingerprint and its textures, scalars and vectors to the lists.
C23_Applicability ==
    log # << >> =>
        /\ last.hash = last.before.Hash
                         + Sum([i \in 1..Len(TextureDataOf(last.meta_data)) |->
                                   TextureDataOf(last.meta_data)[i].Hash])
                         + Sum([i \in 1..Len(SetsFor(last.before, last.meta_data)) |->
                                   SetsFor(last.before, last.meta_data)[i].Hash])
        /\ last.hash = material_hash_of(last.before, WithoutOthers(last.before, last.meta_data))
        /\ last.name = material_name_of(last.before, WithoutOthers(last.before, last.meta_data))
        /\ ~last.hit =>
              /\ last.params = merge_params(last.before, WithoutOthers(last.before, last.meta_data))
              /\ \A i \in 1..Len(SetsFor(last.before, last.meta_data)) :
                    Entered(SetsFor(last.before, last.meta_data)[i], last.params)

\* C23, witness: a material whose display name has a suffix, resolved with a
\* set for itself and a set for another material; the texture of the other
\* set is not in the lists, the hash of the own sets is in the fingerprint
C23_Witness ==
    /\ Built /\ last.name # <<last.before.Name>>
    /\ SetsFor(last.before, last.meta_data) # << >>
    /\ \E i \in 1..Len(SetsForOthers(last.before, last.meta_data)) :
          /\ SetsForOthers(last.before, last.meta_data)[i].Hash # 0
          /\ SetsForOthers(last.before, last.meta_data)[i].Textures # << >>
          /\ ~Entered(SetsForOthers(last.before, last.meta_data)[i], last.params)
    /\ \E i \in 1..Len(SetsFor(last.before, last.meta_data)) :
          /\ SetsFor(last.before, last.meta_data)[i].Textures # << >>
          /\ SetsFor(last.before, last.meta_data)[i].Hash # 0

----------------------------------------------------------------------------
(* Post-processing *)

\* a fix-up of the latest call raised: the build stopped after the root was
\* linked to the output although no template is absent
FixupFailed == Built /\ last.linked /\ last.error /\ ~AbsentTemplate

\* the graph of the latest call has a node of the gradient template
GradientNodeMade ==
    \E i \in 1..Len(LastMaterial.nodes) : LastMaterial.nodes[i].node_tree = "FP Gradient"

\* C24 as stated: when a fix-up fails, the failure is caught and the fix-ups
\* after it are evaluated: no exception leaves the call, and a gradient
\* sub-graph requested after a failed emissive multiplier is started.
C24_FixupsIndependent ==
    FixupFailed =>
        /\ ~aborted
        /\ (TruthyBool(get_param(last.params.switches, "Modulate Emissive with Diffuse"))
               /\ TruthyBool(get_param(last.params.switches, "useGmapGradientLayers")))
           => GradientNodeMade

\* the emissive multiplier failed on an unlinked Diffuse input: the gradient
\* block that follows never ran, and the exception left ImportTask.run with
\* materials still to import
C24_Aborted ==
    /\ FixupFailed /\ aborted /\ Remaining
    /\ TruthyBool(get_param(last.params.switches, "Modulate Emissive with Diffuse"))
    /\ TruthyBool(get_param(last.params.switches, "useGmapGradientLayers"))
    /\ ~GradientNodeMade

\* the inputs AO, Cavity and Subsurface of the latest root hold the options
OptionsApplied ==
    /\ {"AO", "Cavity", "Subsurface"} \subseteq DOMAIN LastNode(last.shader_node).inputs
    /\ LastNode(last.shader_node).inputs["AO"] = <<response.Options.AmbientOcclusion>>
    /\ LastNode(last.shader_node).inputs["Cavity"] = <<response.Options.Cavity>>
    /\ LastNode(last.shader_node).inputs["Subsurface"] = <<response.Options.Subsurface>>

\* the latest graph has a node the default fix-ups make: a vertex-colour
\* node or a group of the mask, cropping or gradient template
FixupNodes ==
    {i \in 1..Len(LastMaterial.nodes) :
        \/ LastMaterial.nodes[i].type = "ShaderNodeVertexColor"
        \/ LastMaterial.nodes[i].node_tree \in {"FP Vertex Alpha", "FP Texture Cropping", "FP Gradient"}}

\* nothing of the default fix-ups is on the latest graph
NoDefaultFixup ==
    /\ DOMAIN LastNode(last.shader_node).inputs \cap {"AO", "Cavity", "Subsurface"} = {}
    /\ FixupNodes = {}
    /\ ~last.gradient

\* the fix-ups the descriptor and the context call for are on the graph
RequestedFixups ==
    /\ OptionsApplied
    /\ (Get(last.meta_data, "SkinColor") # << >> /\ last.meta_data.SkinColor.A # 0)
          => LastNode(last.shader_node).inputs["Skin Boost"] = <<last.meta_data.SkinColor.A>>
    /\ get_param_multiple(last.params.switches, emissive_toggle_names) = <<FALSE>>
          => LastNode(last.shader_node).inputs["Emission Strength"] = <<0>>
    /\ TruthyBool(get_param(last.params.switches, "Use Vertex Colors for Mask"))
          => \E i \in FixupNodes : LastMaterial.nodes[i].type = "ShaderNodeVertexColor"
    /\ TruthyBool(get_param(last.params.switches, "useGmapGradientLayers")) => last.gradient

C25_Replaced ==
    /\ Built /\ ~IsCrunch /\ ~last.error /\ NoDefaultFixup
    /\ last.socket_mappings = "foliage_mappings"
    /\ TruthyBool(get_param(last.params.switches, "useGmapGradientLayers"))
    /\ Get(last.meta_data, "SkinColor") # << >>

C26_RegisteredKept ==
    /\ \A f1, f2 \in DOMAIN imported_materials :
           f1 # f2 => imported_materials[f1] # imported_materials[f2]
    /\ (Built /\ ~last.created) =>
           \A f \in DOMAIN imported_materials :
               imported_materials[f] = last.material => f = last.hash

\* C26, the state the claim excludes: after a miss that kept the slot's
\* material (its name agrees with the display name up to case), that
\* material, rebuilt, is registered under two fingerprints
C26_Rebuilt ==
    /\ Built /\ ~last.created /\ ~last.error
    /\ \E f \in DOMAIN imported_materials :
           f # last.hash /\ imported_materials[f] = last.material
    /\ LastMaterial.nodes # << >>

\* a call of import_material changes the cache by one new entry on a miss and
\* not at all on a hit; a step of the same task that is no call leaves it
C27_Step ==
    IF log' # log
    THEN LET call == log'[Len(log')]
         IN  IF call.hit
             THEN call.hash \in DOMAIN imported_materials /\ imported_materials' = imported_materials
             ELSE /\ call.hash \notin DOMAIN imported_materials
                  /\ DOMAIN imported_materials' = DOMAIN imported_materials \cup {call.hash}
                  /\ \A f \in DOMAIN imported_materials : imported_materials'[f] = imported_materials[f]
    ELSE IF pc'.d = pc.d THEN imported_materials' = imported_materials
         ELSE imported_materials' = << >>

\* the fingerprints the calls of the task `d` had
HashesOf(d) == {log[i].hash : i \in {j \in 1..Len(log) : log[j].d = d}}

\* C27: the cache only grows and belongs to one DataImportTask.  A call adds
\* exactly one entry on a miss and none on a hit, an entry keeps its handle
\* for the rest of the task, and the entries visible while a Data item is
\* imported are those the calls for that Data item registered.
C27_CacheScope ==
    [][C27_Step /\ (~aborted' => DOMAIN imported_materials' = HashesOf(pc.d)')]_vars

\* C27, witness: the task of the second Data item missed a fingerprint the
\* task of the first had registered, registered it anew and then hit it; its
\* cache holds two entries
C27_Witness ==
    /\ pc.d = 2 /\ Cardinality(DOMAIN imported_materials) >= 2
    /\ \E i, j, k \in 1..Len(log) :
           /\ i < j /\ j < k /\ log[i].d = 1 /\ log[j].d = 2 /\ log[k].d = 2
           /\ log[i].hash = log[j].hash /\ log[k].hash = log[j].hash
           /\ ~log[i].hit /\ ~log[j].hit /\ log[k].hit
           /\ imported_materials[log[j].hash] = log[j].material
           /\ log[j].material # log[i].material

\* a hit leaves everything but the slot it was called for as it was
C28_Step ==
    (log' # log /\ log'[Len(log')].hit) =>
        LET call == log'[Len(log')]
        IN  /\ imported_materials' = imported_materials
            /\ materials' = materials
            /\ response' = response
            /\ is_toon' = is_toon
            /\ node_groups' = node_groups
            /\ crunch_verts_materials' = crunch_verts_materials
            /\ ~aborted'
            /\ slots' = [slots EXCEPT ![call.key][call.index] = imported_materials[call.hash]]

\* C28: a cache hit changes nothing but the slot.  It assigns the cached
\* material to the slot and leaves the cache, the materials with their names,
\* nodes and links, the descriptors' parameter sequences and the is_toon
\* flag unchanged.
C28_HitFrame == [][C28_Step]_vars

\* C28, witness: a hit that gave the slot another material than it had, for
\* a descriptor whose lists the applicable layers would change
C28_Witness ==
    /\ log # << >> /\ last.hit
    /\ slots[last.key][last.index] = last.material
    /\ last.previous # last.material
    /\ materials[last.material].nodes # << >>
    /\ merge_params(last.before, last.meta_data) # ParamsOf(last.before)

\* the names of the entries of a list, in order
NamesOf(list) == [i \in 1..Len(list) |-> Get(list[i], "Name")]

\* the textures of the applicable sets of the latest call
SetTextures ==
    LET sets == ApplicableOverrides(last.before, last.meta_data)
    IN  UNION {{sets[k].Textures[i] : i \in 1..Len(sets[k].Textures)} : k \in 1..Len(sets)}

\* the position of the first entry of the name in the effective textures
TexturePosition(parameter) ==
    FirstIndex(last.params.textures, LAMBDA x : Get(x, "Name") = Get(parameter[1], "Name"))

\* the Diffuse, Normal and Specular of a TextureData entry that are new names
\* for the base list stand in the effective list in this order
InOrder(entry) ==
    LET given == SelectSeq(<<Get(entry, "Diffuse"), Get(entry, "Normal"), Get(entry, "Specular")>>,
                           LAMBDA x : x # << >> /\ ~(\E i \in 1..Len(last.before.Textures) :
                                                       last.before.Textures[i].Name = x[1].Name))
    IN  \A i, j \in 1..Len(given) :
            (i < j /\ given[i][1].Name # given[j][1].Name)
                => TexturePosition(given[i]) < TexturePosition(given[j])

\* C29: override layers never alter switches or component masks.  The switch
\* and component-mask sequences a graph is built from are the descriptor's;
\* TextureData changes only the textures (Diffuse, Normal, Specular of an
\* entry in this order, before any variant set: a set's texture of the same
\* name wins); variant sets change only textures, scalars and vectors; so
\* the switch tests of the layered and the trunk family give what they give
\* on the descriptor.
C29_SwitchesKept ==
    Built =>
        /\ last.params.switches = last.before.Switches
        /\ last.params.component_masks = last.before.ComponentMasks
        /\ Descriptor(response, last.ref).Switches = last.before.Switches
        /\ Descriptor(response, last.ref).ComponentMasks = last.before.ComponentMasks
        /\ ApplicableOverrides(last.before, last.meta_data) = << >>
              => /\ last.params.scalars = last.before.Scalars
                 /\ last.params.vectors = last.before.Vectors
        /\ (ApplicableOverrides(last.before, last.meta_data) = << >>
            /\ TextureDataOf(last.meta_data) = << >>)
              => last.params.textures = last.before.Textures
        /\ \A k \in 1..Len(TextureDataOf(last.meta_data)) : InOrder(TextureDataOf(last.meta_data)[k])
        /\ \A i \in 1..Len(last.params.textures) :
              (\E t \in SetTextures : t.Name = last.params.textures[i].Name)
                  => last.params.textures[i] \in SetTextures
        /\ get_param_multiple(last.params.switches, layer_switch_names)
              = get_param_multiple(last.before.Switches, layer_switch_names)
        /\ get_param(last.params.switches, "IsTrunk") = get_param(last.before.Switches, "IsTrunk")

\* C29, witness: a TextureData entry gave three new textures, a later entry
\* and then a set for the material replaced the base Diffuse, the set added a
\* scalar, and its own switches and component masks stayed out
C29_Witness ==
    /\ Built /\ ~last.error
    /\ NamesOf(last.params.textures) = <<<<"Diffuse">>, <<"D">>, <<"Normals">>, <<"SpecularMasks">>,
                                         <<"Diffuse_Texture_2">>>>
    /\ last.params.textures[1].Value = "/T/C.C"
    /\ NamesOf(last.params.scalars) = <<<<"Custom">>>>
    /\ get_param(last.params.switches, "IsTrunk") = <<FALSE>>
    /\ last.params.component_masks = <<Parameter("CustomMask", Color(0, 1, 0, 0))>>
    /\ \E k \in 1..Len(last.meta_data.OverrideParameters) :
           "Switches" \in DOMAIN last.meta_data.OverrideParameters[k]

\* the switches of the latest call that are emissive toggles, in order
Toggles ==
    SelectSeq(last.params.switches,
              LAMBDA param : param.Name \in {"Emissive", "UseBasicEmissive", "UseAdvancedEmissive",
                                             "Use Emissive"})

\* the scalars of the latest call the default table maps to Emission Strength
Multipliers == SelectSeq(last.params.scalars, LAMBDA param : param.Name = "emissive mult")

\* the latest call is a default-family resolution that is not vertex-crunch
DefaultBuilt ==
    Built /\ ~IsCrunch /\ ~last.error /\ last.socket_mappings = "default_mappings"

\* C30: in a default-family resolution that is not vertex-crunch, Emission
\* Strength is forced to 0 exactly when the first switch that is one of the
\* four emissive toggles has the value False, whatever the later toggles
\* are; otherwise the input is as the 'emissive mult' scalar left it.  The
\* forced 0 replaces the value that scalar wrote.
C30_EmissiveGate ==
    DefaultBuilt =>
        IF Toggles # << >> /\ Toggles[1].Value = FALSE
        THEN LastNode(last.shader_node).inputs["Emission Strength"] = <<0>>
        ELSE IF Multipliers # << >>
             THEN LastNode(last.shader_node).inputs["Emission Strength"]
                      = <<Multipliers[Len(Multipliers)].Value>>
             ELSE "Emission Strength" \notin DOMAIN LastNode(last.shader_node).inputs

\* C30, witness: the first toggle is False, a later one True, and the 0
\* replaced the 2 the scalar had written
C30_Witness ==
    /\ DefaultBuilt /\ Len(Toggles) = 2
    /\ Toggles[1].Value = FALSE /\ Toggles[2].Value = TRUE
    /\ Multipliers # << >> /\ Multipliers[1].Value = 2
    /\ LastNode(last.shader_node).inputs["Emission Strength"] = <<0>>
    /\ \E i \in 1..Len(last.events) :
           last.events[i].name = <<"emissive mult">> /\ last.events[i].outcome = "mapped"

\* C30, the other side: the first toggle is True and a later one False: the
\* input keeps the scalar's value
C30_LaterFalse ==
    /\ DefaultBuilt /\ Len(Toggles) = 2
    /\ Toggles[1].Value = TRUE /\ Toggles[2].Value = FALSE
    /\ LastNode(last.shader_node).inputs["Emission Strength"] = <<2>>
====
